---- MODULE Spec2Model ----
(***************************************************************************)
(* A model of check-flac (src/checkflac/checkflac.py): the partial Date    *)
(* type, tag aggregation over the album -> disc -> track tree, the         *)
(* number/total and name checks, and the validation pass driven by main.   *)
(*                                                                         *)
(* Python strings are sequences of one-character strings, so that          *)
(* formatting, parsing, translating and regular-expression matching are    *)
(* computed, character by character, the way the code computes them.       *)
(* An optional value is None (the empty tuple) or Some(x) (a 1-tuple).     *)
(***************************************************************************)
EXTENDS Integers, Sequences, FiniteSets, TLC

None == <<>>
Some(x) == <<x>>
Val(o) == o[1]

----------------------------------------------------------------------------
(* Characters and integer <-> text conversion                              *)

DigitChars == {"0", "1", "2", "3", "4", "5", "6", "7", "8", "9"}

DigitSeq == <<"0", "1", "2", "3", "4", "5", "6", "7", "8", "9">>

DigitVal(c) == CHOOSE v \in 0..9 : DigitSeq[v + 1] = c

RECURSIVE NatDigits(_)
\* str(n) for n >= 0
NatDigits(n) == IF n < 10 THEN <<DigitSeq[n + 1]>>
                ELSE NatDigits(n \div 10) \o <<DigitSeq[(n % 10) + 1]>>

RECURSIVE Zeros(_)
Zeros(k) == IF k <= 0 THEN <<>> ELSE <<"0">> \o Zeros(k - 1)

\* "{:0<width>d}".format(n): sign first, then zero padding up to the width
FormatInt(n, width) ==
    LET sign == IF n < 0 THEN <<"-">> ELSE <<>>
        digs == NatDigits(IF n < 0 THEN -n ELSE n)
    IN  sign \o Zeros(width - Len(sign) - Len(digs)) \o digs

RECURSIVE DigitsVal(_)
\* value of a non-empty run of decimal digits
DigitsVal(ds) == IF Len(ds) = 0 THEN 0
                 ELSE 10 * DigitsVal(SubSeq(ds, 1, Len(ds) - 1)) + DigitVal(ds[Len(ds)])

Smaller(x, y) == IF x < y THEN x ELSE y

\* the digits int() reads: decimal digits, with single underscores between
\* them (Python 3.6 and later)
IsDigits(s) ==
    /\ Len(s) > 0 /\ s[1] \in DigitChars /\ s[Len(s)] \in DigitChars
    /\ \A k \in 1..Len(s) : s[k] \in DigitChars \/ (s[k] = "_" /\ s[k - 1] # "_")

\* the whitespace of str.strip() and int() among the characters in use
Whitespace == {" ", "\t", "\n", "\r", "\f"}

\* str.strip(): drop leading and trailing whitespace
LStrip(s) ==
    LET kept == {k \in 1..Len(s) : s[k] \notin Whitespace}
    IN  IF kept = {} THEN <<>>
        ELSE SubSeq(s, CHOOSE k \in kept : \A j \in kept : k <= j, Len(s))

RStrip(s) ==
    LET kept == {k \in 1..Len(s) : s[k] \notin Whitespace}
    IN  IF kept = {} THEN <<>>
        ELSE SubSeq(s, 1, CHOOSE k \in kept : \A j \in kept : j <= k)

Strip(s) == RStrip(LStrip(s))

\* int(t) for a text t without surrounding whitespace
SignedInt(t) ==
    LET signed == Len(t) > 0 /\ t[1] \in {"+", "-"}
        ds == IF signed THEN Tail(t) ELSE t
        n == DigitsVal(SelectSeq(ds, LAMBDA c : c # "_"))
    IN  IF ~IsDigits(ds) THEN None
        ELSE Some(IF signed /\ t[1] = "-" THEN -n ELSE n)

\* int(s): Some(value), or None where Python raises ValueError.  Surrounding
\* whitespace and one leading sign are accepted, then decimal digits, which
\* single underscores may group (int of Python 3.6 and later).
ParseInt(s) == SignedInt(Strip(s))

----------------------------------------------------------------------------
(* Python string and list helpers                                           *)

\* the ASCII characters of tags and names in code-point order: the
\* whitespace controls, then the printable characters
Ascii == <<
    "\t", "\n", "\f", "\r",
    " ", "!", "\"", "#", "$", "%", "&", "'", "(", ")", "*", "+", ",", "-",
    ".", "/", "0", "1", "2", "3", "4", "5", "6", "7", "8", "9", ":", ";",
    "<", "=", ">", "?", "@", "A", "B", "C", "D", "E", "F", "G", "H", "I",
    "J", "K", "L", "M", "N", "O", "P", "Q", "R", "S", "T", "U", "V", "W",
    "X", "Y", "Z", "[", "\\", "]", "^", "_", "a", "b", "c", "d", "e",
    "f", "g", "h", "i", "j", "k", "l", "m", "n", "o", "p", "q", "r", "s",
    "t", "u", "v", "w", "x", "y", "z", "{", "|", "}", "~"
>>

\* the rank of a character in code-point order
CharCode(c) == CHOOSE n \in 1..Len(Ascii) : Ascii[n] = c

UpperLetters == <<"A", "B", "C", "D", "E", "F", "G", "H", "I", "J", "K", "L", "M",
                  "N", "O", "P", "Q", "R", "S", "T", "U", "V", "W", "X", "Y", "Z">>

\* str.lower()
LowerChar(c) ==
    LET lower == <<"a", "b", "c", "d", "e", "f", "g", "h", "i", "j", "k", "l", "m",
                   "n", "o", "p", "q", "r", "s", "t", "u", "v", "w", "x", "y", "z">>
    IN  IF \E n \in 1..26 : UpperLetters[n] = c
        THEN lower[CHOOSE n \in 1..26 : UpperLetters[n] = c]
        ELSE c

Lower(s) == [n \in 1..Len(s) |-> LowerChar(s[n])]

\* a < b on strings: by code point, a proper prefix first
StrLess(a, b) ==
    LET differ == {k \in 1..Smaller(Len(a), Len(b)) : a[k] # b[k]}
        first == CHOOSE k \in differ : \A j \in differ : k <= j
    IN  IF differ = {} THEN Len(a) < Len(b)
        ELSE CharCode(a[first]) < CharCode(b[first])

RECURSIVE InsertStr(_, _)
InsertStr(x, sorted) ==
    IF sorted = <<>> THEN <<x>>
    ELSE IF StrLess(x, Head(sorted)) THEN <<x>> \o sorted
    ELSE <<Head(sorted)>> \o InsertStr(x, Tail(sorted))

RECURSIVE SortedStrs(_)
\* sorted(xs) for a list of strings
SortedStrs(xs) == IF xs = <<>> THEN <<>>
                  ELSE InsertStr(xs[Len(xs)], SortedStrs(SubSeq(xs, 1, Len(xs) - 1)))

RECURSIVE InsertInt(_, _)
InsertInt(x, sorted) ==
    IF sorted = <<>> THEN <<x>>
    ELSE IF x < Head(sorted) THEN <<x>> \o sorted
    ELSE <<Head(sorted)>> \o InsertInt(x, Tail(sorted))

RECURSIVE SortedInts(_)
\* sorted(xs) for a list of ints
SortedInts(xs) == IF xs = <<>> THEN <<>>
                  ELSE InsertInt(xs[Len(xs)], SortedInts(SubSeq(xs, 1, Len(xs) - 1)))

RECURSIVE Flatten(_)
\* the concatenation of a list of lists
Flatten(xss) ==
    IF Len(xss) = 0 THEN <<>>
    ELSE IF Len(xss) = 1 THEN xss[1]
    ELSE LET half == Len(xss) \div 2
         IN  Flatten(SubSeq(xss, 1, half)) \o Flatten(SubSeq(xss, half + 1, Len(xss)))

Range(xs) == {xs[n] : n \in 1..Len(xs)}

\* the position after the last "." of path, or 1 when it has none:
\* path.rsplit(".", 1)[-1] starts there
ExtStart(path) ==
    LET dots == {n \in 1..Len(path) : path[n] = "."}
    IN  IF dots = {} THEN 1 ELSE 1 + CHOOSE n \in dots : \A m \in dots : m <= n

has_ext(path, ext) == Lower(SubSeq(path, ExtStart(path), Len(path))) = Lower(ext)

RECURSIVE files_by_ext(_, _)
\* [x for x in files if has_ext(x, ext)]
files_by_ext(files, ext) ==
    IF files = <<>> THEN <<>>
    ELSE (IF has_ext(Head(files), ext) THEN <<Head(files)>> ELSE <<>>)
         \o files_by_ext(Tail(files), ext)

----------------------------------------------------------------------------
(* Regular expressions (the subset of `re` the program uses), matched by    *)
(* backtracking in the priority order of Python's engine.  A pattern is a   *)
(* record [k, ...]: "lit", "set", "nset" and "any" take one character,      *)
(* "start", "end" and "eos" take none, "cat", "alt", "rep" and "grp" are    *)
(* built of patterns.                                                       *)

Inf == 0 - 1

Lit(c) == [k |-> "lit", c |-> c]
OneOf(cs) == [k |-> "set", cs |-> cs]
NoneOf(cs) == [k |-> "nset", cs |-> cs]
AnyChar == [k |-> "any"]
Cat(rs) == [k |-> "cat", rs |-> rs]
Alt(rs) == [k |-> "alt", rs |-> rs]
Rep(r, min, max, greedy) == [k |-> "rep", r |-> r, min |-> min, max |-> max, greedy |-> greedy]
Grp(name, r) == [k |-> "grp", name |-> name, r |-> r]

\* a pattern that matches exactly one character
SingleChar(r) == r.k \in {"lit", "set", "nset", "any"}

CharOK(r, c) ==
    IF r.k = "lit" THEN c = r.c
    ELSE IF r.k = "set" THEN c \in r.cs
    ELSE IF r.k = "nset" THEN c \notin r.cs
    ELSE c # "\n"

\* how many characters of s, from position i on, match r one after the other
RunLen(r, s, i) ==
    CHOOSE n \in 0..(Len(s) - i + 1) :
        /\ \A j \in i..(i + n - 1) : CharOK(r, s[j])
        /\ i + n > Len(s) \/ ~CharOK(r, s[i + n])

\* the matches found of a group's pattern from the position start, each with
\* the text the group took
Capture(s, name, start, found) ==
    [j \in 1..Len(found) |-> [found[j] EXCEPT !.caps[name] = Some(SubSeq(s, start, found[j].end - 1))]]

\* the matches of a repeat of a one-character pattern, run characters of
\* which follow the position of st
Runs(r, st, run) ==
    LET hi == IF r.max = Inf THEN run ELSE Smaller(run, r.max)
    IN  IF hi < r.min THEN <<>>
        ELSE [j \in 1..(hi - r.min + 1) |->
                 [st EXCEPT !.end = @ + (IF r.greedy THEN hi - j + 1 ELSE r.min + j - 1)]]

\* the matches of a repeat that may stop at st, given those (more) that go
\* round once more
Again(r, st, more) ==
    IF r.min > 0 THEN more
    ELSE IF r.greedy THEN more \o <<st>> ELSE <<st>> \o more

RECURSIVE Step(_, _, _)
RECURSIVE Thread(_, _, _)
\* Every way of matching r against s from the state st = [end, caps] (the
\* next position and the groups captured so far), in the order in which a
\* backtracking engine tries them: greedy repeats the longest first, lazy
\* ones the shortest first, alternatives from left to right.  A repeat goes
\* round again only from a round that took some text, unless rounds are
\* still owed to its minimum.
Step(s, r, st) ==
    CASE SingleChar(r) ->
           IF st.end <= Len(s) /\ CharOK(r, s[st.end]) THEN <<[st EXCEPT !.end = @ + 1]>> ELSE <<>>
      [] r.k = "start" -> IF st.end = 1 THEN <<st>> ELSE <<>>
      [] r.k = "end" ->
           IF st.end = Len(s) + 1 \/ (st.end = Len(s) /\ s[Len(s)] = "\n") THEN <<st>> ELSE <<>>
      [] r.k = "eos" -> IF st.end = Len(s) + 1 THEN <<st>> ELSE <<>>
      [] r.k = "cat" -> Thread(s, r.rs, <<st>>)
      [] r.k = "alt" -> Flatten([a \in 1..Len(r.rs) |-> Step(s, r.rs[a], st)])
      [] r.k = "grp" -> Capture(s, r.name, st.end, Step(s, r.r, st))
      [] r.k = "rep" /\ SingleChar(r.r) -> Runs(r, st, RunLen(r.r, s, st.end))
      [] r.k = "rep" /\ ~SingleChar(r.r) ->
           IF r.max = 0 THEN <<st>>
           ELSE LET less(n) == IF n = Inf \/ n = 0 THEN n ELSE n - 1
                    once == Step(s, r.r, st)
                IN  Again(r, st, Flatten([j \in 1..Len(once) |->
                        IF once[j].end = st.end /\ r.min <= 1 THEN <<once[j]>>
                        ELSE Step(s, Rep(r.r, less(r.min), less(r.max), r.greedy), once[j])]))

\* the items of a sequence matched one after the other, from each of the
\* states sts in turn
Thread(s, items, sts) ==
    IF items = <<>> \/ sts = <<>> THEN sts
    ELSE Thread(s, Tail(items), Flatten([j \in 1..Len(sts) |-> Step(s, Head(items), sts[j])]))

\* regex.match(s): None, or Some([end, caps]) for the preferred match at 1,
\* the first of those found
ReMatch(regex, groups, s) ==
    LET all == Step(s, regex, [end |-> 1, caps |-> [g \in groups |-> None]])
    IN  IF all = <<>> THEN None ELSE Some(Head(all))

----------------------------------------------------------------------------
(* re.compile and re.sub on the text of a pattern.  The parser reads the    *)
(* constructs of the program's patterns: literals, escaped punctuation, ".", *)
(* "^", "$", character sets with ranges, groups (plain, "(?:" and "(?P<"),   *)
(* "|" and the repeats "*", "+", "?", "{m,n}", greedy or lazy.  A parse is   *)
(* [ok, r, pos, names]: the pattern read, the position after it and the      *)
(* groups opened so far, or [ok |-> FALSE] for re.error; the escapes of      *)
(* letters and digits and the other "(?" extensions are not read and count   *)
(* as errors.                                                                *)

\* the character at pos of the text p, or "" past its end
CharAt(p, pos) == IF pos <= Len(p) THEN p[pos] ELSE ""

\* the ASCII letters and digits
Alnum == DigitChars \cup Range(UpperLetters) \cup {LowerChar(UpperLetters[n]) : n \in 1..26}

RECURSIVE ClassItems(_, _, _, _, _)
\* the character set whose members are read from pos on, up to its "]",
\* and added to cs.  A "]" that comes first is a member, "a-z" is a range
\* and a "-" before the "]" is a member.
ClassItems(p, pos, names, negate, cs) ==
    LET esc == CharAt(p, pos) = "\\"
        lo == CharAt(p, IF esc THEN pos + 1 ELSE pos)
        next == IF esc THEN pos + 2 ELSE pos + 1
        eschi == CharAt(p, next + 1) = "\\"
        hi == CharAt(p, IF eschi THEN next + 2 ELSE next + 1)
        range == CharAt(p, next) = "-" /\ (eschi \/ hi # "]")
        last == CharAt(p, next) = "-" /\ ~range
        all == cs \cup (IF last THEN {lo, "-"}
                        ELSE IF ~range THEN {lo}
                        ELSE {c \in Range(Ascii) : CharCode(lo) <= CharCode(c) /\ CharCode(c) <= CharCode(hi)})
    IN  IF ~esc /\ lo = "]" /\ cs # {}
        THEN [ok |-> TRUE, r |-> IF negate THEN NoneOf(cs) ELSE OneOf(cs), pos |-> pos + 1, names |-> names]
        ELSE IF lo = "" \/ (esc /\ lo \in Alnum) THEN [ok |-> FALSE]
        ELSE IF range /\ (hi = "" \/ (eschi /\ hi \in Alnum) \/ CharCode(hi) < CharCode(lo)) THEN [ok |-> FALSE]
        ELSE IF last
        THEN [ok |-> TRUE, r |-> IF negate THEN NoneOf(all) ELSE OneOf(all), pos |-> next + 2, names |-> names]
        ELSE ClassItems(p, IF ~range THEN next ELSE IF eschi THEN next + 3 ELSE next + 2, names, negate, all)

\* the repeat written at pos of the text: [len, min, max, greedy], of length
\* 0 when none is ("{" that no "m,n}" follows is a literal); "?" after it
\* makes it lazy
Quantifier(p, pos) ==
    LET Lazy(q) == IF q.len > 0 /\ CharAt(p, pos + q.len) = "?"
                   THEN [q EXCEPT !.len = @ + 1, !.greedy = FALSE] ELSE q
        Braces(lo, comma, hi) ==
            IF CharAt(p, pos + 1 + lo + comma + hi) # "}" \/ lo + comma + hi = 0 THEN [len |-> 0]
            ELSE [len |-> lo + comma + hi + 2, greedy |-> TRUE,
                  min |-> DigitsVal(SubSeq(p, pos + 1, pos + lo)),
                  max |-> IF hi > 0 THEN DigitsVal(SubSeq(p, pos + 1 + lo + comma, pos + lo + comma + hi))
                          ELSE IF comma = 1 THEN Inf
                          ELSE DigitsVal(SubSeq(p, pos + 1, pos + lo))]
        Upper(lo, comma) == Braces(lo, comma, RunLen(OneOf(DigitChars), p, pos + 1 + lo + comma))
        Comma(lo) == Upper(lo, IF CharAt(p, pos + 1 + lo) = "," THEN 1 ELSE 0)
    IN  Lazy(IF CharAt(p, pos) = "*" THEN [len |-> 1, min |-> 0, max |-> Inf, greedy |-> TRUE]
             ELSE IF CharAt(p, pos) = "+" THEN [len |-> 1, min |-> 1, max |-> Inf, greedy |-> TRUE]
             ELSE IF CharAt(p, pos) = "?" THEN [len |-> 1, min |-> 0, max |-> 1, greedy |-> TRUE]
             ELSE IF CharAt(p, pos) = "{" THEN Comma(RunLen(OneOf(DigitChars), p, pos + 1))
             ELSE [len |-> 0])

RECURSIVE ParseSub(_, _, _, _)
RECURSIVE ParseSeq(_, _, _, _)

\* the group that opens at pos of the text: a plain group is named by its
\* number, "(?:" captures nothing, "(?P<name>" needs an identifier that no
\* group before has
ParseGroup(p, pos, names) ==
    LET closes == {n \in (pos + 4)..Len(p) : p[n] = ">"}
        close == CHOOSE n \in closes : \A m \in closes : n <= m
        given == SubSeq(p, pos + 4, close - 1)
        plain == CharAt(p, pos + 1) # "?"
        shy == ~plain /\ CharAt(p, pos + 2) = ":"
        named == /\ ~plain /\ CharAt(p, pos + 2) = "P" /\ CharAt(p, pos + 3) = "<" /\ closes # {}
                 /\ given # <<>> /\ given[1] \notin DigitChars
                 /\ \A n \in 1..Len(given) : given[n] \in Alnum \cup {"_"}
                 /\ given \notin Range(names)
        name == IF plain THEN NatDigits(Len(names) + 1) ELSE given
        Closed(sub) == IF ~sub.ok \/ CharAt(p, sub.pos) # ")" THEN [ok |-> FALSE]
                       ELSE [sub EXCEPT !.pos = @ + 1, !.r = IF shy THEN @ ELSE Grp(name, @)]
    IN  IF ~(plain \/ shy \/ named) THEN [ok |-> FALSE]
        ELSE Closed(ParseSub(p, IF plain THEN pos + 1 ELSE IF shy THEN pos + 3 ELSE close + 1,
                             IF shy THEN names ELSE Append(names, name), <<>>))

\* _parse: the items of a sequence from pos on, after those read, up to the
\* "|" or ")" that ends it or the end of the text.  A repeat needs an item
\* before it that is neither "^" or "$" nor a repeat itself.
ParseSeq(p, pos, names, items) ==
    LET c == CharAt(p, pos)
        Repeated(item, q, next) ==
            IF q.len = 0 THEN ParseSeq(p, item.pos, item.names, Append(items, item.r))
            ELSE IF item.r.k \in {"start", "end"} \/ (q.max # Inf /\ q.max < q.min) \/ next.len > 0
            THEN [ok |-> FALSE]
            ELSE ParseSeq(p, item.pos + q.len, item.names,
                          Append(items, Rep(item.r, q.min, q.max, q.greedy)))
        Before(item, q) == Repeated(item, q, Quantifier(p, item.pos + q.len))
        Item(item) == IF ~item.ok THEN item ELSE Before(item, Quantifier(p, item.pos))
        Single(q) ==
            IF q.len > 0 \/ (c = "\\" /\ CharAt(p, pos + 1) \in Alnum \cup {""}) THEN [ok |-> FALSE]
            ELSE [ok |-> TRUE, names |-> names,
                  pos |-> IF c = "\\" THEN pos + 2 ELSE pos + 1,
                  r |-> IF c = "\\" THEN Lit(p[pos + 1])
                        ELSE IF c = "." THEN AnyChar
                        ELSE IF c = "^" THEN [k |-> "start"]
                        ELSE IF c = "$" THEN [k |-> "end"]
                        ELSE Lit(c)]
    IN  IF c \in {"", "|", ")"} THEN [ok |-> TRUE, r |-> Cat(items), pos |-> pos, names |-> names]
        ELSE Item(IF c = "(" THEN ParseGroup(p, pos, names)
                  ELSE IF c = "["
                  THEN ClassItems(p, IF CharAt(p, pos + 1) = "^" THEN pos + 2 ELSE pos + 1,
                                  names, CharAt(p, pos + 1) = "^", {})
                  ELSE Single(Quantifier(p, pos)))

\* _parse_sub: the alternatives from pos on, after the branches read
ParseSub(p, pos, names, branches) ==
    LET More(seq) ==
            IF ~seq.ok THEN seq
            ELSE IF CharAt(p, seq.pos) = "|"
            THEN ParseSub(p, seq.pos + 1, seq.names, Append(branches, seq.r))
            ELSE IF branches = <<>> THEN seq
            ELSE [seq EXCEPT !.r = Alt(Append(branches, @))]
    IN  More(ParseSeq(p, pos, names, <<>>))

\* re.compile(pattern): [ok, r, names], the pattern and the names of its
\* groups, or [ok |-> FALSE] where it raises re.error (a ")" left over
\* included)
ReCompile(pattern) ==
    LET Whole(sub) == IF sub.ok /\ sub.pos = Len(pattern) + 1
                      THEN [ok |-> TRUE, r |-> sub.r, names |-> Range(sub.names)]
                      ELSE [ok |-> FALSE]
    IN  Whole(ParseSub(pattern, 1, <<>>, <<>>))

RECURSIVE ReSub(_, _, _, _)
\* re.sub(regex, "", s) from the position pos of s on: the matches are cut,
\* each the preferred one at the first position that has one, the next
\* sought from where the last ended.  After an empty match the search goes
\* on at the same position for a match that is not empty (must_advance, as
\* Python 3.7 does; 3.6 goes on at the next position).
ReSub(regex, s, pos, must_advance) ==
    LET found(q) == SelectSeq(Step(s, regex.r, [end |-> q, caps |-> [g \in regex.names |-> None]]),
                              LAMBDA st : q # pos \/ ~must_advance \/ st.end > q)
        starts == {q \in pos..(Len(s) + 1) : found(q) # <<>>}
        start == CHOOSE q \in starts : \A o \in starts : q <= o
        end == Head(found(start)).end
    IN  IF starts = {} THEN SubSeq(s, pos, Len(s))
        ELSE SubSeq(s, pos, start - 1) \o ReSub(regex, s, IF end > start THEN end ELSE start, end = start)

----------------------------------------------------------------------------
(* Date (src/checkflac/checkflac.py, class Date)                            *)

\* Date.__init__: year, month and day, each an int or None
Date(year, month, day) == [year |-> year, month |-> month, day |-> day]

\* __eq__ requiring both months (days) unset before it stops comparing
DateEqBothUnset(self, other) ==
    IF self.year # other.year THEN FALSE
    ELSE IF self.month = None /\ other.month = None THEN TRUE
    ELSE IF self.month # other.month THEN FALSE
    ELSE IF self.day = None /\ other.day = None THEN TRUE
    ELSE self.day = other.day

\* Date.__eq__ on two Dates
DateEq(self, other) ==
    IF self.year # other.year THEN FALSE
    ELSE IF self.month = None \/ other.month = None THEN TRUE
    ELSE IF self.month # other.month THEN FALSE
    ELSE IF self.day = None \/ other.day = None THEN TRUE
    ELSE self.day = other.day

\* a == b where each side is a Date or None: __eq__ answers NotImplemented
\* for a non-Date, and Python then compares by identity
PyEq(a, b) ==
    IF a # None /\ b # None THEN DateEq(Val(a), Val(b))
    ELSE a = None /\ b = None

\* __str__ with the year not padded to four digits
DateStrUnpadded(self) ==
    NatDigits(Val(self.year))
    \o (IF self.month # None THEN <<"-">> \o FormatInt(Val(self.month), 2) ELSE <<>>)
    \o (IF self.day # None THEN <<"-">> \o FormatInt(Val(self.day), 2) ELSE <<>>)

\* Date.__str__
DateStr(self) ==
    FormatInt(Val(self.year), 4)
    \o (IF self.month # None THEN <<"-">> \o FormatInt(Val(self.month), 2) ELSE <<>>)
    \o (IF self.day # None THEN <<"-">> \o FormatInt(Val(self.day), 2) ELSE <<>>)

\* The regular expressions datetime.strptime builds for %Y, %m and %d
DirY == Grp(<<"Y">>, Cat(<<OneOf(DigitChars), OneOf(DigitChars), OneOf(DigitChars), OneOf(DigitChars)>>))

DirM == Grp(<<"m">>, Alt(<<Cat(<<Lit("1"), OneOf({"0", "1", "2"})>>),
                           Cat(<<Lit("0"), OneOf(DigitChars \ {"0"})>>),
                           OneOf(DigitChars \ {"0"})>>))

DirD == Grp(<<"d">>, Alt(<<Cat(<<Lit("3"), OneOf({"0", "1"})>>),
                           Cat(<<OneOf({"1", "2"}), OneOf(DigitChars)>>),
                           Cat(<<Lit("0"), OneOf(DigitChars \ {"0"})>>),
                           OneOf(DigitChars \ {"0"}),
                           Cat(<<Lit(" "), OneOf(DigitChars \ {"0"})>>)>>))

IsLeap(y) == (y % 4 = 0 /\ y % 100 # 0) \/ y % 400 = 0

DaysInMonth(y, m) ==
    IF m = 2 THEN (IF IsLeap(y) THEN 29 ELSE 28)
    ELSE IF m \in {4, 6, 9, 11} THEN 30 ELSE 31

\* what strptime makes of the match m of its format against s: None where
\* it raises ValueError (no match, unconverted data left over, or no such day
\* in the calendar); a field that the format does not have is 1
Converted(s, m) ==
    IF m = None \/ Val(m).end # Len(s) + 1 THEN None
    ELSE LET g == Val(m).caps
             y == DigitsVal(Val(g[<<"Y">>]))
             mo == IF g[<<"m">>] = None THEN 1 ELSE DigitsVal(Val(g[<<"m">>]))
             d == IF g[<<"d">>] = None THEN 1 ELSE DigitsVal(LStrip(Val(g[<<"d">>])))
         IN  IF y < 1 \/ d > DaysInMonth(y, mo) THEN None
             ELSE Some([year |-> y, month |-> mo, day |-> d])

\* datetime.datetime.strptime(s, fmt) for the three formats of Date.parse:
\* Some([year, month, day]), or None where it raises ValueError (no match,
\* unconverted data left over, or no such day in the calendar)
Strptime(s, fmt) == Converted(s, ReMatch(Cat(fmt), {<<"Y">>, <<"m">>, <<"d">>}, s))

\* the Date of the first of the three attempts of Date.parse that did not
\* raise ValueError
FirstParsed(full, ym, yr) ==
    IF full # None THEN Some(Date(Some(Val(full).year), Some(Val(full).month), Some(Val(full).day)))
    ELSE IF ym # None THEN Some(Date(Some(Val(ym).year), Some(Val(ym).month), None))
    ELSE IF yr # None THEN Some(Date(Some(Val(yr).year), None, None))
    ELSE None

\* Date.parse(s), s a string or None
DateParse(s) ==
    IF s = None THEN None
    ELSE FirstParsed(Strptime(Val(s), <<DirY, Lit("-"), DirM, Lit("-"), DirD>>),
                     Strptime(Val(s), <<DirY, Lit("-"), DirM>>),
                     Strptime(Val(s), <<DirY>>))

----------------------------------------------------------------------------
(* Tag names, the per-level tag sets and the name patterns                  *)

ALBUM == <<"A", "L", "B", "U", "M">>
DATE == <<"D", "A", "T", "E">>
ORIGDATE == <<"O", "R", "I", "G", "D", "A", "T", "E">>
ALBUMARTIST == <<"A", "L", "B", "U", "M", "A", "R", "T", "I", "S", "T">>
DISCTOTAL == <<"D", "I", "S", "C", "T", "O", "T", "A", "L">>
MEDIA == <<"M", "E", "D", "I", "A">>
DISCNUMBER == <<"D", "I", "S", "C", "N", "U", "M", "B", "E", "R">>
TRACKTOTAL == <<"T", "R", "A", "C", "K", "T", "O", "T", "A", "L">>
LABEL == <<"L", "A", "B", "E", "L">>
CATALOGNUMBER == <<"C", "A", "T", "A", "L", "O", "G", "N", "U", "M", "B", "E", "R">>
ARTIST == <<"A", "R", "T", "I", "S", "T">>
TRACKNUMBER == <<"T", "R", "A", "C", "K", "N", "U", "M", "B", "E", "R">>
TITLE == <<"T", "I", "T", "L", "E">>
COMPILATION == <<"C", "O", "M", "P", "I", "L", "A", "T", "I", "O", "N">>
QUALITY == <<"Q", "U", "A", "L", "I", "T", "Y">>
OTHERINFO == <<"O", "T", "H", "E", "R", "I", "N", "F", "O">>
REPLAYGAIN_REFERENCE_LOUDNESS == <<"R", "E", "P", "L", "A", "Y", "G", "A", "I", "N", "_", "R", "E", "F", "E", "R", "E", "N", "C", "E", "_", "L", "O", "U", "D", "N", "E", "S", "S">>
REPLAYGAIN_ALBUM_GAIN == <<"R", "E", "P", "L", "A", "Y", "G", "A", "I", "N", "_", "A", "L", "B", "U", "M", "_", "G", "A", "I", "N">>
REPLAYGAIN_ALBUM_PEAK == <<"R", "E", "P", "L", "A", "Y", "G", "A", "I", "N", "_", "A", "L", "B", "U", "M", "_", "P", "E", "A", "K">>
REPLAYGAIN_TRACK_GAIN == <<"R", "E", "P", "L", "A", "Y", "G", "A", "I", "N", "_", "T", "R", "A", "C", "K", "_", "G", "A", "I", "N">>
REPLAYGAIN_TRACK_PEAK == <<"R", "E", "P", "L", "A", "Y", "G", "A", "I", "N", "_", "T", "R", "A", "C", "K", "_", "P", "E", "A", "K">>

\* Album.REQUIRED_TAGS, Disc.REQUIRED_TAGS, Track.REQUIRED_TAGS
REQUIRED_TAGS(level) ==
    IF level = "album" THEN {ALBUM, DATE, ORIGDATE, ALBUMARTIST, DISCTOTAL, MEDIA}
    ELSE IF level = "disc" THEN {DISCNUMBER, TRACKTOTAL, LABEL, CATALOGNUMBER}
    ELSE {ARTIST, TRACKNUMBER, TITLE}

\* ValidatorBase/Disc/Track.REPLAYGAIN_TAGS
REPLAYGAIN_TAGS(level) ==
    IF level = "album" THEN {}
    ELSE IF level = "disc" THEN {REPLAYGAIN_REFERENCE_LOUDNESS, REPLAYGAIN_ALBUM_GAIN, REPLAYGAIN_ALBUM_PEAK}
    ELSE {REPLAYGAIN_TRACK_GAIN, REPLAYGAIN_TRACK_PEAK}

DATE_TAGS == {DATE, ORIGDATE}

COVER_FILENAME == <<"c", "o", "v", "e", "r", ".", "j", "p", "g">>

MAX_PATH_LENGTH == 180

VARIOUS_ARTISTS == {<<"v", "a", "r", "i", "o", "u", "s", " ", "a", "r", "t", "i", "s", "t", "s">>, <<"v", "a", "r", "i", "o", "u", "s">>, <<"v", "a">>}

\* Album._NAME_PATTERN:
\* ^(?:(?P<ALBUMARTIST>.*?) - )?(?P<ALBUM>.*) \((?P<ORIGDATE>.*)\)
\*  \[(?P<MEDIA>.+?) ?- ?FLAC(?: ?- ?(?P<QUALITY>[^\]]*))?\](?: \{(?P<OTHERINFO>.*)\})?$
AlbumNamePattern ==
    << "^", "(", "?", ":", "(", "?", "P", "<", "A", "L", "B", "U", "M", "A", "R", "T", "I", "S", "T",
       ">", ".", "*", "?", ")", " ", "-", " ", ")", "?", "(", "?", "P", "<", "A", "L", "B", "U", "M",
       ">", ".", "*", ")", " ", "\\", "(", "(", "?", "P", "<", "O", "R", "I", "G", "D", "A", "T", "E",
       ">", ".", "*", ")", "\\", ")", " ", "\\", "[", "(", "?", "P", "<", "M", "E", "D", "I", "A",
       ">", ".", "+", "?", ")", " ", "?", "-", " ", "?", "F", "L", "A", "C", "(", "?", ":", " ", "?",
       "-", " ", "?", "(", "?", "P", "<", "Q", "U", "A", "L", "I", "T", "Y", ">", "[", "^", "\\", "]",
       "]", "*", ")", ")", "?", "\\", "]", "(", "?", ":", " ", "\\", "{", "(", "?", "P", "<", "O",
       "T", "H", "E", "R", "I", "N", "F", "O", ">", ".", "*", ")", "\\", "}", ")", "?", "$" >>

\* the pattern of Disc.NAME_REGEX: ^(?:CD|Disc )(?P<DISCNUMBER>[^ ]*)$
DiscNamePattern ==
    << "^", "(", "?", ":", "C", "D", "|", "D", "i", "s", "c", " ", ")", "(", "?", "P", "<", "D", "I",
       "S", "C", "N", "U", "M", "B", "E", "R", ">", "[", "^", " ", "]", "*", ")", "$" >>

\* Track._NAME_PATTERN: ^(?P<TRACKNUMBER>[^ ]*) - (?:(?P<ARTIST>.*) - )?(?P<TITLE>.*).flac$
TrackNamePattern ==
    << "^", "(", "?", "P", "<", "T", "R", "A", "C", "K", "N", "U", "M", "B", "E", "R", ">", "[", "^",
       " ", "]", "*", ")", " ", "-", " ", "(", "?", ":", "(", "?", "P", "<", "A", "R", "T", "I", "S",
       "T", ">", ".", "*", ")", " ", "-", " ", ")", "?", "(", "?", "P", "<", "T", "I", "T", "L", "E",
       ">", ".", "*", ")", ".", "f", "l", "a", "c", "$" >>

\* remove_optional_regex: the text of the pattern without what matches
\* "\(\?:[^(]*\(\?P<{}>[^)]*\)[^)]*\)\?".format(name), for a name with
\* which that compiles
remove_optional_regex(pattern, name) ==
    ReSub(ReCompile(<<"\\", "(", "\\", "?", ":", "[", "^", "(", "]", "*", "\\", "(", "\\", "?", "P", "<">>
                    \o name
                    \o <<">", "[", "^", ")", "]", "*", "\\", ")", "[", "^", ")", "]", "*", "\\", ")", "\\", "?">>),
          pattern, 1, FALSE)

\* the NAME_REGEX of the nodes of a level, as Album.__init__ and
\* Track.__init__ compile it with the optional part removed or not
\* (no_albumartist, no_trackartist); Disc.NAME_REGEX is fixed
NAME_REGEX ==
    [level \in {"album", "disc", "track"} |-> [removed \in BOOLEAN |->
        IF level = "disc" THEN ReCompile(DiscNamePattern)
        ELSE IF level = "album"
        THEN ReCompile(IF removed THEN remove_optional_regex(AlbumNamePattern, ALBUMARTIST)
                       ELSE AlbumNamePattern)
        ELSE ReCompile(IF removed THEN remove_optional_regex(TrackNamePattern, ARTIST)
                       ELSE TrackNamePattern)]]

\* the named groups of the three patterns
GroupNames == {ALBUMARTIST, ALBUM, ORIGDATE, MEDIA, QUALITY, OTHERINFO, DISCNUMBER, TRACKNUMBER, ARTIST, TITLE}

\* m.groupdict() for NAME_REGEX.match(name), or None when there is no match
MatchName(level, cfg, name) ==
    LET removed == IF level = "album" THEN cfg.no_albumartist
                   ELSE level = "track" /\ cfg.no_trackartist
        m == ReMatch(NAME_REGEX[level][removed].r, GroupNames, name)
    IN  IF m = None THEN None ELSE Some(Val(m).caps)

----------------------------------------------------------------------------
(* Construction: Album.__init__, Disc.__init__, Track.__init__              *)
(* A root of the file system is [isdir, name, dirs]; dirs lists, in the     *)
(* order os.walk yields them, the directories at and below the root, each   *)
(* [name, above, files, content]: name is None for the root directory       *)
(* itself, above lists the names of the directories between the root and    *)
(* this one (none for the root and for a directory directly inside it),     *)
(* files are its file names and content[x] is what taglib and the flac and  *)
(* metaflac tools report for the file x.                                    *)

\* Track.__init__
TrackInit(dir, x) ==
    [name |-> x, tags |-> dir.content[x].tags,
     flac_ok |-> dir.content[x].flac_ok, picture |-> dir.content[x].picture]

\* Disc.__init__ (with Disc._find_tracks), given the sorted files of the
\* directory
DiscOf(dir, files) ==
    LET flacs == files_by_ext(files, <<"f", "l", "a", "c">>)
    IN  [name |-> dir.name, above |-> dir.above, files |-> files,
         tracks |-> [t \in 1..Len(flacs) |-> TrackInit(dir, flacs[t])]]

RECURSIVE InsertDisc(_, _)
InsertDisc(x, sorted) ==
    IF sorted = <<>> THEN <<x>>
    ELSE IF StrLess(Val(x.name), Val(Head(sorted).name)) THEN <<x>> \o sorted
    ELSE <<Head(sorted)>> \o InsertDisc(x, Tail(sorted))

RECURSIVE SortedDiscs(_)
\* sorted(ret, key=lambda x: x.name)
SortedDiscs(ds) == IF ds = <<>> THEN <<>>
                   ELSE InsertDisc(ds[Len(ds)], SortedDiscs(SubSeq(ds, 1, Len(ds) - 1)))

RECURSIVE WalkDiscs(_)
\* the loop of Album._find_discs: a Disc for every directory with a flac file
WalkDiscs(dirs) ==
    IF dirs = <<>> THEN <<>>
    ELSE (IF files_by_ext(Head(dirs).files, <<"f", "l", "a", "c">>) # <<>>
          THEN <<DiscOf(Head(dirs), SortedStrs(Head(dirs).files))>> ELSE <<>>)
         \o WalkDiscs(Tail(dirs))

\* the end of Album._find_discs and of Album.__init__, given the discs found:
\* sorting them compares their names, and None (flac files in the root
\* directory itself) does not compare with a string
AlbumOf(root, ret) ==
    IF Len(ret) > 1 /\ \E d \in 1..Len(ret) : ret[d].name = None
    THEN [ok |-> FALSE, error |-> "TypeError"]
    ELSE [ok |-> TRUE,
          album |-> [name |-> root.name,
                     discs |-> IF Len(ret) > 1 THEN SortedDiscs(ret) ELSE ret]]

\* Album.__init__: [ok |-> TRUE, album] or [ok |-> FALSE, error], the
\* exception it raises
AlbumInit(root) ==
    IF ~root.isdir THEN [ok |-> FALSE, error |-> "FileNotFoundError"]
    ELSE AlbumOf(root, WalkDiscs(root.dirs))

----------------------------------------------------------------------------
(* The album tree.  An Album holds discs, a Disc holds tracks, a Track      *)
(* holds the tags taglib read: a mapping from tag name to a non-empty list  *)
(* of values.  A node of an album is named by its path: <<>> the album,     *)
(* <<d>> its d-th disc, <<d, t>> the t-th track of that disc.               *)

\* Level.values()
Levels == {"album", "disc", "track"}

\* Level.classify
Level(node) == IF Len(node) = 0 THEN "album" ELSE IF Len(node) = 1 THEN "disc" ELSE "track"

DiscAt(alb, node) == alb.discs[node[1]]

TrackAt(alb, node) == alb.discs[node[1]].tracks[node[2]]

\* ValidatorBase.children (None for a track)
children(alb, node) ==
    IF Level(node) = "album" THEN Some([d \in 1..Len(alb.discs) |-> <<d>>])
    ELSE IF Level(node) = "disc" THEN Some([t \in 1..Len(DiscAt(alb, node).tracks) |-> <<node[1], t>>])
    ELSE None

\* ValidatorBase.name
NodeName(alb, node) ==
    IF Level(node) = "album" THEN Some(alb.name)
    ELSE IF Level(node) = "disc" THEN DiscAt(alb, node).name
    ELSE Some(TrackAt(alb, node).name)

\* the tracks below a node, in child order
RECURSIVE Tracks(_, _)
Tracks(alb, node) ==
    IF Level(node) = "track" THEN <<node>>
    ELSE LET cs == Val(children(alb, node))
         IN  Flatten([c \in 1..Len(cs) |-> Tracks(alb, cs[c])])

\* every node of the album, in depth-first pre-order
RECURSIVE Nodes(_, _)
Nodes(alb, node) ==
    IF Level(node) = "track" THEN <<node>>
    ELSE LET cs == Val(children(alb, node))
         IN  <<node>> \o Flatten([c \in 1..Len(cs) |-> Nodes(alb, cs[c])])

\* a line the program prints: which message, about which tag, with which
\* values
Line(kind, tag, args) == [kind |-> kind, tag |-> tag, args |-> args]

RECURSIVE get_tag(_, _, _, _)
\* ValidatorBase.get_tag: the list it returns, each entry Some(value) or the
\* placeholder None
get_tag(alb, node, tag_name, placeholder) ==
    IF Level(node) = "track"
    THEN LET tags == TrackAt(alb, node).tags
         IN  IF tag_name \in DOMAIN tags THEN <<Some(tags[tag_name][1])>>
             ELSE IF placeholder THEN <<None>>
             ELSE <<>>
    ELSE LET cs == Val(children(alb, node))
         IN  Flatten([c \in 1..Len(cs) |-> get_tag(alb, cs[c], tag_name, placeholder)])

RECURSIVE get_tag_out(_, _, _)
\* ValidatorBase.get_tag: the lines one call prints (duplicate tags)
get_tag_out(alb, node, tag_name) ==
    IF Level(node) = "track"
    THEN LET tags == TrackAt(alb, node).tags
         IN  IF tag_name \in DOMAIN tags /\ Len(tags[tag_name]) > 1
             THEN <<Line("Found duplicate tags", tag_name, <<node, Len(tags[tag_name])>>)>>
             ELSE <<>>
    ELSE LET cs == Val(children(alb, node))
         IN  Flatten([c \in 1..Len(cs) |-> get_tag_out(alb, cs[c], tag_name)])

RECURSIVE get_tag_list(_, _)
\* ValidatorBase.get_tag_list
get_tag_list(alb, node) ==
    IF Level(node) = "track" THEN DOMAIN TrackAt(alb, node).tags
    ELSE LET cs == Val(children(alb, node))
         IN  UNION {get_tag_list(alb, cs[c]) : c \in 1..Len(cs)}

\* get_valid_tag returning the first item's value whether or not the others agree
GetValidTagFirst(alb, node, tag_name) ==
    LET temp == get_tag(alb, node, tag_name, TRUE)
    IN  IF temp # <<>> /\ None \notin Range(temp) THEN temp[1] ELSE None

\* ValidatorBase.get_valid_tag: Some(value) or None
get_valid_tag(alb, node, tag_name) ==
    LET tags == Range(get_tag(alb, node, tag_name, TRUE))
    IN  IF Cardinality(tags) = 1 /\ None \notin tags THEN CHOOSE v \in tags : TRUE ELSE None

\* _check_all_same reporting disagreeing values as missing from some items
CheckAllSameAgree(alb, node, tag) ==
    LET temp == get_tag(alb, node, tag, TRUE)
        tags == Range(temp) \ {None}
    IN  [code |-> IF None \in Range(temp) /\ tags = {} THEN "ALL"
                  ELSE IF None \in Range(temp) \/ Cardinality(tags) > 1 THEN "SOME"
                  ELSE "NONE",
         multiple |-> Cardinality(tags) > 1,
         msgs |-> <<>>]

\* the body of _check_all_same, given the entries get_tag collected
Classify(temp) ==
    LET tags == Range(temp) \ {None}
        missing == None \in Range(temp)
    IN  [code |-> IF ~missing THEN "NONE" ELSE IF tags = {} THEN "ALL" ELSE "SOME",
         multiple |-> Cardinality(tags) > 1,
         msgs |-> (IF ~missing THEN <<>>
                   ELSE IF tags = {} THEN <<[m |-> "missing from all items"]>>
                   ELSE <<[m |-> "missing from items", n |-> Cardinality({k \in 1..Len(temp) : temp[k] = None}), of |-> Len(temp)]>>)
                  \o (IF Cardinality(tags) > 1 THEN <<[m |-> "multiple values", values |-> tags]>>
                      ELSE <<>>)]

\* ValidatorBase._check_all_same: (missing code, multiple, msgs)
_check_all_same(alb, node, tag) == Classify(get_tag(alb, node, tag, TRUE))

\* ValidatorBase._get_tag_and_check: (value, missing code, multiple)
_get_tag_and_check(alb, node, tag_name) ==
    LET r == _check_all_same(alb, node, tag_name)
    IN  IF r.code = "NONE" /\ ~r.multiple
        THEN [value |-> get_valid_tag(alb, node, tag_name), code |-> r.code, multiple |-> r.multiple]
        ELSE [value |-> None, code |-> r.code, multiple |-> r.multiple]

\* the lines _get_tag_and_check prints: those of the get_tag calls it makes
get_tag_and_check_out(alb, node, tag_name) ==
    LET r == _check_all_same(alb, node, tag_name)
    IN  get_tag_out(alb, node, tag_name)
        \o (IF r.code = "NONE" /\ ~r.multiple THEN get_tag_out(alb, node, tag_name) ELSE <<>>)

----------------------------------------------------------------------------
(* The checks of ValidatorBase.  Each operator gives the lines one call      *)
(* prints, in order.  Where the code loops over a set of strings the order  *)
(* is that of the hash table, which the string hashes of the process        *)
(* decide, one loop apart from another: the operators that loop over a set  *)
(* take the order, and pre_validate takes one for each of its loops,        *)
(* [required, replaygain, contents, name].                                  *)

RECURSIVE SeqOfSet(_, _)
\* the order in which a loop takes the strings of a set.  The order is
\* given as a list of numbers, each telling which of the strings left,
\* counted by name from 0, comes next (the first by name where the list has
\* ended), so every order of every set is given by some list
SeqOfSet(order, S) ==
    IF S = {} THEN <<>>
    ELSE LET x == CHOOSE y \in S :
                      Cardinality({z \in S : StrLess(z, y)})
                          = (IF order = <<>> THEN 0 ELSE Head(order) % Cardinality(S))
         IN  <<x>> \o SeqOfSet(IF order = <<>> THEN <<>> ELSE Tail(order), S \ {x})

\* TAG_TRANSLATION = str.maketrans('<>:\/|"', "[]----'", "?*")
TranslateChar(c) ==
    IF c = "<" THEN <<"[">>
    ELSE IF c = ">" THEN <<"]">>
    ELSE IF c \in {":", "\\", "/", "|"} THEN <<"-">>
    ELSE IF c = "\"" THEN <<"'">>
    ELSE IF c \in {"?", "*"} THEN <<>>
    ELSE <<c>>

\* s.translate(TAG_TRANSLATION)
Translate(s) == Flatten([n \in 1..Len(s) |-> TranslateChar(s[n])])

\* s.replace(":", " :")
SpaceColon(s) == Flatten([n \in 1..Len(s) |-> IF s[n] = ":" THEN <<" ", ":">> ELSE <<s[n]>>])

\* compare_names(tag, name, tagname); tagname is Some(name of the tag) or None
compare_names(tag, name, tagname) ==
    IF tagname # None /\ Val(tagname) \in DATE_TAGS
    THEN PyEq(DateParse(Some(tag)), DateParse(Some(name))) /\ DateParse(Some(name)) # None
    ELSE Translate(tag) = name \/ Translate(SpaceColon(tag)) = name


\* validate_all_same without the two cases it lets pass
ValidateAllSameNoExceptions(alb, node, tag) ==
    LET r == _check_all_same(alb, node, tag)
    IN  get_tag_out(alb, node, tag)
        \o (IF r.code # "NONE" \/ r.multiple
            THEN IF Level(node) = "track"
                 THEN <<Line("Problem with tag", tag, <<[m |-> "missing"]>>)>>
                 ELSE <<Line("Problem with tag", tag, r.msgs)>>
            ELSE <<>>)

\* ValidatorBase.validate_all_same
validate_all_same(alb, node, tag) ==
    LET r == _check_all_same(alb, node, tag)
    IN  get_tag_out(alb, node, tag)
        \o (IF tag = ALBUMARTIST /\ r.code = "ALL" THEN <<>>
            ELSE IF tag = ORIGDATE /\ r.code = "ALL" THEN <<>>
            ELSE IF r.code # "NONE" \/ r.multiple
                 THEN IF Level(node) = "track"
                      THEN <<Line("Problem with tag", tag, <<[m |-> "missing"]>>)>>
                      ELSE <<Line("Problem with tag", tag, r.msgs)>>
                 ELSE <<>>)

\* ValidatorBase.validate_metadata_structure
validate_metadata_structure(alb, node, seed) ==
    LET tags == SeqOfSet(seed, REQUIRED_TAGS(Level(node)))
    IN  Flatten([n \in 1..Len(tags) |-> validate_all_same(alb, node, tags[n])])

\* ValidatorBase.validate_replaygain
validate_replaygain(alb, node, seed) ==
    LET tags == SeqOfSet(seed, REPLAYGAIN_TAGS(Level(node)))
    IN  Flatten([n \in 1..Len(tags) |-> validate_all_same(alb, node, tags[n])])

\* TAG_MAP: common bad tags, each the compiled pattern of its text, and the
\* names to use instead (None: no such tag should exist).  A replacement is
\* a list of texts and group names; a plain group is named by its number.
g1 == <<"1">>
g2 == <<"2">>

TAG_MAP ==
    << [bad |-> ReCompile(<<"(", "O", "R", "I", "G", ")", "?", "Y", "E", "A", "R">>).r,
        good |-> Some(<<[group |-> g1], [text |-> DATE]>>)],
       [bad |-> ReCompile(<<"T", "O", "T", "A", "L", "(", "T", "R", "A", "C", "K", "|", "D", "I", "S", "C", ")", "S">>).r,
        good |-> Some(<<[group |-> g1], [text |-> <<"T", "O", "T", "A", "L">>]>>)],
       [bad |-> ReCompile(<<".", "*", "S", "O", "R", "T">>).r,
        good |-> None],
       [bad |-> ReCompile(<<"(", ".", "*", ")", "D", "I", "S", "K", "(", ".", "*", ")">>).r,
        good |-> Some(<<[group |-> g1], [text |-> <<"D", "I", "S", "C">>], [group |-> g2]>>)] >>

\* bad.fullmatch(tagname)
FullMatch(bad, tagname) == ReMatch(Cat(<<bad, [k |-> "eos"]>>), {g1, g2}, tagname) # None

\* the replacement with the groups of a match filled in; a group that took
\* no part in the match gives the empty string
Expand(good, caps) ==
    Flatten([n \in 1..Len(good) |->
                IF "text" \in DOMAIN good[n] THEN good[n].text
                ELSE IF caps[good[n].group] = None THEN <<>> ELSE Val(caps[good[n].group])])

\* bad.sub(good, tagname) for a tag name that bad matches in full: the match
\* found from the start is replaced and what follows it is kept
Sub(bad, good, tagname) ==
    LET m == Val(ReMatch(bad, {g1, g2}, tagname))
    IN  Expand(good, m.caps) \o SubSeq(tagname, m.end, Len(tagname))

\* the lines of process_tagmap for a bad tag name to be replaced by rep
UseInstead(alb, node, tagname, rep) ==
    get_tag_out(alb, node, rep)
    \o (IF get_tag(alb, node, rep, FALSE) # <<>>
        THEN <<Line("tag detected, remove them (tag already exists)", tagname, <<rep>>)>>
        ELSE <<Line("tag detected - use tags instead", tagname, <<rep>>)>>)

\* one pass of the loop of process_tagmap, for one entry of TAG_MAP:
\* [raised, out].  The pass begins with isinstance(bad, re._pattern_type);
\* re has that attribute up to Python 3.6, where every key of TAG_MAP is an
\* instance of it and is matched with fullmatch, and has it no more from
\* Python 3.7 on, where the pass raises AttributeError before it prints
CheckMapEntry(alb, node, tagname, entry, version) ==
    IF ~(version[1] = 3 /\ version[2] < 7) THEN [raised |-> TRUE, out |-> <<>>]
    ELSE [raised |-> FALSE,
          out |-> IF ~FullMatch(entry.bad, tagname) THEN <<>>
                  ELSE IF entry.good = None THEN <<Line("tag detected - remove them", tagname, <<>>)>>
                  ELSE UseInstead(alb, node, tagname, Sub(entry.bad, Val(entry.good), tagname))]

\* a loop that an exception may leave, given the result of each pass had it
\* run: [raised, ran], whether a pass raised and the results of the passes
\* that ran, the one that raised being the last
LoopRaised(each) ==
    LET stop == {n \in 1..Len(each) : each[n].raised}
    IN  [raised |-> stop # {},
         ran |-> IF stop = {} THEN each
                 ELSE SubSeq(each, 1, CHOOSE n \in stop : \A m \in stop : n <= m)]

\* ValidatorBase.process_tagmap: [raised, ran], whether the call raised and
\* the passes of its loop that ran, each with the lines it printed
process_tagmap(alb, node, tagname, version) ==
    LoopRaised([n \in 1..Len(TAG_MAP) |-> CheckMapEntry(alb, node, tagname, TAG_MAP[n], version)])

\* the body of the loop of validate_tag_contents from process_tagmap on,
\* given what get_valid_tag returned (tag) and printed (dups) and the result
\* of process_tagmap (mapped); the name is in checked_tags before
\* process_tagmap is called
AfterTagMap(tagname, tag, dups, mapped) ==
    [name |-> tagname, checked |-> TRUE, raised |-> mapped.raised,
     out |-> dups \o Flatten([n \in 1..Len(mapped.ran) |-> mapped.ran[n].out])
             \o (IF mapped.raised THEN <<>>
                 ELSE IF Val(tag) # Strip(Val(tag))
                 THEN <<Line("tag has extra whitespace in it", tagname, <<Val(tag)>>)>>
                 ELSE IF Strip(Val(tag)) = <<>>
                 THEN <<Line("tag is blank - delete it", tagname, <<>>)>>
                 ELSE IF tagname \in DATE_TAGS /\ DateParse(tag) = None
                 THEN <<Line("tag value is incorrectly formatted", tagname, <<Val(tag)>>)>>
                 ELSE <<>>)]

\* the body of the loop of validate_tag_contents, given what get_valid_tag
\* returned (tag) and printed (dups)
CheckedContents(alb, node, tagname, tag, dups, version) ==
    IF tag = None THEN [name |-> tagname, checked |-> FALSE, raised |-> FALSE, out |-> dups]
    ELSE AfterTagMap(tagname, tag, dups, process_tagmap(alb, node, tagname, version))

\* the body of the loop of validate_tag_contents for one tag name that is
\* not yet in checked_tags: [name, checked, raised, out], whether the name
\* is marked as checked, whether the pass raised, and the lines printed
CheckTagContents(alb, node, tagname, version) ==
    CheckedContents(alb, node, tagname, get_valid_tag(alb, node, tagname),
                    get_tag_out(alb, node, tagname), version)

\* the result of validate_tag_contents, given that of its loop
Collected(cfg, loop) ==
    [checked_tags |-> cfg.checked_tags
                      \cup {loop.ran[n].name : n \in {m \in 1..Len(loop.ran) : loop.ran[m].checked}},
     raised |-> loop.raised,
     out |-> Flatten([n \in 1..Len(loop.ran) |-> loop.ran[n].out])]

\* validate_tag_contents looping over every tag name of the node, checked
\* before or not
ValidateTagContentsAll(alb, node, cfg, seed, version) ==
    LET names == SeqOfSet(seed, get_tag_list(alb, node))
    IN  Collected(cfg, LoopRaised([n \in 1..Len(names) |-> CheckTagContents(alb, node, names[n], version)]))

\* ValidatorBase.validate_tag_contents: [checked_tags, raised, out]
validate_tag_contents(alb, node, cfg, seed, version) ==
    LET names == SeqOfSet(seed, get_tag_list(alb, node) \ cfg.checked_tags)
    IN  Collected(cfg, LoopRaised([n \in 1..Len(names) |-> CheckTagContents(alb, node, names[n], version)]))

\* total != len(self.children)
TotalWrong(total, count) == total # count

\* the sort check looking at the first two numbers only
SortWrongFirstPair(numbers) == Len(numbers) > 1 /\ numbers[1] > numbers[2]

\* sorted(numbers) != numbers
SortWrong(numbers) == SortedInts(numbers) # numbers

\* the check of the TOTAL tag, given what get_valid_tag returned
TotalLines(total_tag, temp, count) ==
    IF temp = None THEN <<>>
    ELSE LET total == ParseInt(Val(temp))
         IN  IF total = None
             THEN <<Line("Problem with TOTAL tag (non-numeric)", total_tag, <<>>)>>
             ELSE IF TotalWrong(Val(total), count)
             THEN <<Line("Problem with TOTAL tag (found)", total_tag, <<count, Val(total)>>)>>
             ELSE <<>>

\* the check of the sort order, given what get_tag returned
SortLines(number_tag, numbers) ==
    LET ints == [n \in 1..Len(numbers) |-> ParseInt(Val(numbers[n]))]
    IN  IF numbers = <<>> THEN <<>>
        ELSE IF \E n \in 1..Len(ints) : ints[n] = None
        THEN <<Line("WARNING: Not checking sort order", number_tag, <<>>)>>
        ELSE IF SortWrong([n \in 1..Len(ints) |-> Val(ints[n])])
        THEN <<Line("do not sort properly", number_tag, <<>>)>>
        ELSE <<>>

\* ValidatorBase.validate_number_metadata
validate_number_metadata(alb, node) ==
    IF Level(node) = "track" THEN <<>>
    ELSE
      LET total_tag == IF Level(node) = "album" THEN DISCTOTAL ELSE TRACKTOTAL
          number_tag == IF Level(node) = "album" THEN DISCNUMBER ELSE TRACKNUMBER
      IN  get_tag_out(alb, node, total_tag)
          \o TotalLines(total_tag, get_valid_tag(alb, node, total_tag), Len(Val(children(alb, node))))
          \o get_tag_out(alb, node, number_tag)
          \o SortLines(number_tag, get_tag(alb, node, number_tag, FALSE))

\* the comparison of validate_name of the tag used with the part of the name
NamePartLines(used, tag, name) ==
    IF tag = None THEN <<Line("Unable to validate against name (see above)", used, <<>>)>>
    ELSE IF ~compare_names(Val(tag), name, Some(used))
         THEN <<Line("Mismatch in tag", used, <<name, Val(tag)>>)>>
    ELSE <<>>

\* the pass of the loop of validate_name without the special case of ORIGDATE
CheckNamePartNoFallback(alb, node, tagname, name) ==
    get_tag_out(alb, node, tagname) \o NamePartLines(tagname, get_valid_tag(alb, node, tagname), name)

\* the pass of the loop of validate_name, given what get_valid_tag returned
\* for the tag (first): an album's ORIGDATE that is not valid is taken from
\* DATE
WithFallback(alb, node, tagname, name, first) ==
    LET fallback == first = None /\ tagname = ORIGDATE
    IN  (IF fallback THEN get_tag_out(alb, node, DATE) ELSE <<>>)
        \o NamePartLines(IF fallback THEN DATE ELSE tagname,
                         IF fallback THEN get_valid_tag(alb, node, DATE) ELSE first,
                         name)

\* one pass of the loop of validate_name, for a tag that the name gives:
\* the tag comes from get_valid_tag, and an album's ORIGDATE that is not
\* valid is taken from DATE
CheckNamePart(alb, node, tagname, name) ==
    get_tag_out(alb, node, tagname)
    \o WithFallback(alb, node, tagname, name, get_valid_tag(alb, node, tagname))

\* bool(albumartist and albumartist.lower() in VARIOUS_ARTISTS)
IsVarious(artist) == artist # None /\ Val(artist) # <<>> /\ Lower(Val(artist)) \in VARIOUS_ARTISTS

\* the album-specific part of validate_name
CheckAlbumName(alb, node, metadata) ==
    LET albumartist == IF ALBUMARTIST \in DOMAIN metadata THEN Some(metadata[ALBUMARTIST]) ELSE None
        albumartist_tag == get_valid_tag(alb, node, ALBUMARTIST)
        left == IF IsVarious(albumartist) THEN None ELSE albumartist
    IN  (IF OTHERINFO \notin DOMAIN metadata
         THEN <<Line("No extra identifying information is included in the folder name", <<>>, <<>>)>>
         ELSE <<>>)
        \o get_tag_out(alb, node, ALBUMARTIST)
        \o (IF albumartist_tag # None /\ albumartist = None
            THEN <<Line("No ALBUMARTIST found in the folder name but found in the tags", <<>>, <<>>)>>
            ELSE <<>>)
        \o (IF albumartist_tag = None /\ albumartist # None
            THEN <<Line("ALBUMARTIST is in the folder name but is not in the tags", <<>>, <<>>)>>
            ELSE <<>>)
        \o (IF IsVarious(albumartist)
            THEN <<Line("An artist should not be included in the folder name", <<>>, <<Val(albumartist)>>)>>
            ELSE <<>>)
        \o (IF left = None
            THEN get_tag_out(alb, node, COMPILATION)
                 \o (IF get_valid_tag(alb, node, COMPILATION) # Some(<<"1">>)
                     THEN <<Line("No/various ALBUMARTIST specified in the folder name but not tagged as a compilation", <<>>, <<>>)>>
                     ELSE <<>>)
            ELSE <<>>)


\* the track-specific part of validate_name
CheckTrackName(alb, node, metadata) ==
    LET disc == <<node[1]>>
        r == _get_tag_and_check(alb, disc, ARTIST)
    IN  get_tag_and_check_out(alb, disc, ARTIST)
        \o (IF r.value # None /\ ARTIST \in DOMAIN metadata
            THEN <<Line("ARTIST tags are all the same and therefore shouldn't be in the track name", <<>>, <<>>)>>
            ELSE IF r.multiple /\ ARTIST \notin DOMAIN metadata
            THEN <<Line("Multiple ARTIST tags - the track should include the ARTIST", <<>>, <<>>)>>
            ELSE <<>>)


\* validate_name for a name that matches NAME_REGEX, leaving no_cue_log as
\* it is whatever the MEDIA of the name
NameMatchedNoRelax(alb, node, cfg, seed, invalid, metadata) ==
    LET tags == SeqOfSet(seed, REQUIRED_TAGS(Level(node)) \cap DOMAIN metadata)
    IN  [no_cue_log |-> cfg.no_cue_log,
         out |-> invalid
                 \o Flatten([n \in 1..Len(tags) |-> CheckNamePart(alb, node, tags[n], metadata[tags[n]])])
                 \o (IF Level(node) = "album" THEN CheckAlbumName(alb, node, metadata)
                     ELSE IF Level(node) = "track" THEN CheckTrackName(alb, node, metadata)
                     ELSE <<>>)]

\* validate_name for a name that matches NAME_REGEX, given the line about its
\* characters and the groups that took part in the match
NameMatched(alb, node, cfg, seed, invalid, metadata) ==
    LET tags == SeqOfSet(seed, REQUIRED_TAGS(Level(node)) \cap DOMAIN metadata)
    IN  [no_cue_log |-> IF Level(node) = "album" /\ MEDIA \in DOMAIN metadata /\ metadata[MEDIA] # <<"C", "D">>
                        THEN TRUE ELSE cfg.no_cue_log,
         out |-> invalid
                 \o Flatten([n \in 1..Len(tags) |-> CheckNamePart(alb, node, tags[n], metadata[tags[n]])])
                 \o (IF Level(node) = "album" THEN CheckAlbumName(alb, node, metadata)
                     ELSE IF Level(node) = "track" THEN CheckTrackName(alb, node, metadata)
                     ELSE <<>>)]

\* validate_name, given the line about the characters of the name and the
\* groupdict of NAME_REGEX.match(name), or None
NameChecked(alb, node, cfg, seed, invalid, m) ==
    IF m = None
    THEN [no_cue_log |-> cfg.no_cue_log,
          out |-> invalid \o <<Line("Incorrect name - correct format is", <<>>, <<>>)>>]
    ELSE NameMatched(alb, node, cfg, seed, invalid,
                     [k \in {g \in DOMAIN Val(m) : Val(m)[g] # None} |-> Val(Val(m)[k])])

\* ValidatorBase.validate_name: [no_cue_log, out], the flag of the album's
\* configuration after the call and the lines printed
validate_name(alb, node, cfg, seed) ==
    IF NodeName(alb, node) = None THEN [no_cue_log |-> cfg.no_cue_log, out |-> <<>>]
    ELSE LET name == Val(NodeName(alb, node))
         IN  NameChecked(alb, node, cfg, seed,
                         IF compare_names(name, name, None) THEN <<>>
                         ELSE <<Line("Invalid characters detected in the name", <<>>, <<name>>)>>,
                         MatchName(Level(node), cfg, name))

\* the result of pre_validate, given those of validate_tag_contents and of
\* validate_name: [cfg, raised, out].  An AttributeError of
\* validate_tag_contents leaves pre_validate before
\* validate_number_metadata and validate_name
PreValidated(alb, node, cfg, seeds, contents, named) ==
    [cfg |-> [cfg EXCEPT !.checked_tags = contents.checked_tags,
                         !.no_cue_log = IF contents.raised THEN cfg.no_cue_log ELSE named.no_cue_log],
     raised |-> contents.raised,
     out |-> <<Line("Validating", <<>>, <<Level(node), NodeName(alb, node)>>)>>
             \o validate_metadata_structure(alb, node, seeds.required)
             \o (IF ~cfg.no_replaygain THEN validate_replaygain(alb, node, seeds.replaygain) ELSE <<>>)
             \o contents.out
             \o (IF contents.raised THEN <<>> ELSE validate_number_metadata(alb, node) \o named.out)]

\* pre_validate from validate_tag_contents on: validate_name runs with the
\* checked_tags that validate_tag_contents left
PreValidateNamed(alb, node, cfg, seeds, contents) ==
    PreValidated(alb, node, cfg, seeds, contents,
                 validate_name(alb, node, [cfg EXCEPT !.checked_tags = contents.checked_tags], seeds.name))

\* ValidatorBase.pre_validate: [cfg, raised, out], the album's
\* configuration after the call, whether an exception left it, and the
\* lines printed
pre_validate(alb, node, cfg, seeds, version) ==
    PreValidateNamed(alb, node, cfg, seeds, validate_tag_contents(alb, node, cfg, seeds.contents, version))

\* the checks of validate_compilation, given what _get_tag_and_check
\* returned for COMPILATION (c), ALBUMARTIST (aa) and ARTIST (a) and the
\* lines it printed for the last two
CompilationLines(c, aa, a, dups) ==
    (IF ~(c.code = "ALL" \/ (c.code = "NONE" /\ c.value = Some(<<"1">>)))
     THEN <<Line("Invalid COMPILATION tag: must all be set to '1' or unset", COMPILATION, <<>>)>>
     ELSE <<>>)
    \o dups
    \o (IF aa.code = "ALL" /\ a.value # None
        THEN <<Line("ALBUMARTIST tag should be set (is unset but ARTIST tags are all the same)", ALBUMARTIST, <<Val(a.value)>>)>>
        ELSE <<>>)
    \o (IF a.value # None /\ aa.value # None /\ a.value # aa.value
        THEN <<Line("ALBUMARTIST is set but all the ARTIST tags are", ALBUMARTIST, <<Val(aa.value), Val(a.value)>>)>>
        ELSE <<>>)
    \o (IF IsVarious(aa.value) /\ c.value # Some(<<"1">>)
        THEN <<Line("ALBUMARTIST is set but COMPILATION is not set", ALBUMARTIST, <<Val(aa.value)>>)>>
        ELSE <<>>)
    \o (IF c.value # Some(<<"1">>) /\ a.multiple
        THEN <<Line("COMPILATION is not set but there are multiple different ARTISTs tags", COMPILATION, <<>>)>>
        ELSE <<>>)

\* Album.validate_compilation
validate_compilation(alb, node) ==
    get_tag_and_check_out(alb, node, COMPILATION)
    \o CompilationLines(_get_tag_and_check(alb, node, COMPILATION),
                        _get_tag_and_check(alb, node, ALBUMARTIST),
                        _get_tag_and_check(alb, node, ARTIST),
                        get_tag_and_check_out(alb, node, ALBUMARTIST)
                        \o get_tag_and_check_out(alb, node, ARTIST))

\* Album.validate_albumartist
validate_albumartist(alb, node) ==
    get_tag_out(alb, node, ALBUMARTIST)
    \o (IF IsVarious(get_valid_tag(alb, node, ALBUMARTIST))
        THEN <<Line("The ALBUMARTST tag - for albums without a main artist it should be deleted instead", ALBUMARTIST,
                    <<Val(get_valid_tag(alb, node, ALBUMARTIST))>>)>>
        ELSE <<>>)

\* the body of Album.validate
AlbumValidate(alb, node) == validate_compilation(alb, node) \o validate_albumartist(alb, node)

\* the cue and log check of Disc.validate for one extension
CheckCueLog(files, x) ==
    LET f == files_by_ext(files, x)
    IN  IF f = <<>> THEN <<Line("No file found", <<>>, <<x>>)>>
        ELSE IF Len(f) > 1 THEN <<Line("Multiple files found", <<>>, <<x>>)>>
        ELSE <<>>

\* the m3u check of Disc.validate for one extension
CheckM3u(files, x) ==
    IF files_by_ext(files, x) # <<>> THEN <<Line("file detected - delete it", <<>>, <<x>>)>> ELSE <<>>

\* the body of Disc.validate
DiscValidate(alb, node, cfg) ==
    LET files == DiscAt(alb, node).files
    IN  (IF COVER_FILENAME \notin Range(files) THEN <<Line("No cover art found", <<>>, <<>>)>> ELSE <<>>)
        \o (IF ~cfg.no_cue_log
            THEN CheckCueLog(files, <<"c", "u", "e">>) \o CheckCueLog(files, <<"l", "o", "g">>)
            ELSE <<>>)
        \o CheckM3u(files, <<"m", "3", "u">>) \o CheckM3u(files, <<"m", "3", "u", "8">>)

\* len(os.path.relpath(self.path, start=self.disc.album.parent_dir)): the
\* names of the album directory, of the directories between it and the
\* disc directory, of the disc directory unless it is the album directory,
\* and of the file, with a separator after each directory
PathLen(alb, node) ==
    Len(alb.name) + 1
    + Len(Flatten(DiscAt(alb, node).above)) + Len(DiscAt(alb, node).above)
    + (IF DiscAt(alb, node).name = None THEN 0 ELSE Len(Val(DiscAt(alb, node).name)) + 1)
    + Len(TrackAt(alb, node).name)

\* the body of Track.validate; externals tells which of the flac and
\* metaflac executables were found
TrackValidate(alb, node, cfg, externals) ==
    (IF PathLen(alb, node) > MAX_PATH_LENGTH
     THEN <<Line("The path is too long", <<>>, <<PathLen(alb, node), MAX_PATH_LENGTH>>)>> ELSE <<>>)
    \o get_tag_out(alb, node, ARTIST)
    \o (IF IsVarious(get_valid_tag(alb, node, ARTIST))
        THEN <<Line("Invalid ARTIST (use ALBUMARTIST instead)", ARTIST, <<Val(get_valid_tag(alb, node, ARTIST))>>)>>
        ELSE <<>>)
    \o (IF ~cfg.no_flactest /\ externals.flac /\ ~TrackAt(alb, node).flac_ok
        THEN <<Line("Failed to verify FLAC file - it may be corrupt or not have an MD5 set", <<>>, <<>>)>>
        ELSE <<>>)
    \o (IF externals.metaflac /\ TrackAt(alb, node).picture
        THEN <<Line("Album art is embedded - remove it", <<>>, <<>>)>>
        ELSE <<>>)

\* func(self) in the wrapper that the validator decorator builds: the body
\* of Album.validate, Disc.validate or Track.validate
validate(alb, node, cfg, externals) ==
    IF Level(node) = "album" THEN AlbumValidate(alb, node)
    ELSE IF Level(node) = "disc" THEN DiscValidate(alb, node, cfg)
    ELSE TrackValidate(alb, node, cfg, externals)

----------------------------------------------------------------------------
(* State                                                                    *)

VARIABLES
    call,       \* a single operation under test and its operands
    ret,        \* None until that operation has run, then Some(its results)
    argv,       \* the command line: the album roots and the options
    EXTERNALS,  \* which of the flac and metaflac executables were found
    version_info, \* sys.version_info of the interpreter: <<major, minor>>
    PYTHONHASHSEED, \* the seed of the string hashes of the process, as what it
                \* decides: [rest, at], the order of each loop over a
                \* set, at[loop] where given and rest elsewhere
    configs,    \* the Namespace objects: configs[1] is the one parse_args
                \* made, each Album adds its own
    _config,    \* which of them the _config of the current Album refers to
    pc,         \* where main is: "start", "loop", "validating", "returned"
                \* or "raised" (an exception left main)
    index,      \* the position in albums of the loop of main
    album,      \* Some(the Album being validated) or None
    stack,      \* the calls of validate in progress, innermost last
    out,        \* the lines printed so far
    trace       \* the steps of validate taken so far

mainVars == <<argv, EXTERNALS, version_info, PYTHONHASHSEED, configs, _config, pc, index, album, stack, out, trace>>

vars == <<call, ret, argv, EXTERNALS, version_info, PYTHONHASHSEED, configs, _config, pc, index, album, stack, out, trace>>

\* main is not running (a single operation is under test)
MainIdle ==
    /\ argv = None /\ EXTERNALS = None /\ version_info = None /\ PYTHONHASHSEED = None
    /\ configs = <<>> /\ _config = 0
    /\ pc = "returned" /\ index = 0 /\ album = None /\ stack = <<>>
    /\ out = <<>> /\ trace = <<>>

\* no single operation is under test (main is running)
UnitIdle == call = None /\ ret = None

----------------------------------------------------------------------------
(* main and the validate calls it makes.  A call of validate is the wrapper  *)
(* of the validator decorator: pre_validate, the body, post_validate, and    *)
(* post_validate calls validate on the children.                             *)

\* the lines with the run (the position of the album on the command line,
\* 0 before the first) and the node whose validation printed them
Stamp(lines, run, node) ==
    [n \in 1..Len(lines) |-> [run |-> run, at |-> node, kind |-> lines[n].kind,
                              tag |-> lines[n].tag, args |-> lines[n].args]]

\* parse_args and the massaging of the config: the Namespace without albums
ParseArgs(args) ==
    [checklevel |-> args.checklevel, no_replaygain |-> args.no_replaygain,
     no_flactest |-> args.no_flactest, no_albumartist |-> args.no_albumartist,
     no_trackartist |-> args.no_trackartist, no_cue_log |-> args.no_cue_log]

\* an Album keeping the Namespace it was given as its _config: [heap, ref]
ShareConfig(heap) ==
    [heap |-> [heap EXCEPT ![1] = [checked_tags |-> {}] @@ heap[1]], ref |-> 1]

\* self._config = argparse.Namespace(**vars(config), checked_tags=set()):
\* [heap, ref], the objects after the call and the new object's place
CopyConfig(heap) ==
    [heap |-> Append(heap, [checked_tags |-> {}] @@ heap[1]), ref |-> Len(heap) + 1]

\* the warnings of main for missing executables
MissingExecutables(externals) ==
    (IF ~externals.flac THEN <<Line("WARNING: couldn't find the executable", <<>>, <<"flac">>)>> ELSE <<>>)
    \o (IF ~externals.metaflac THEN <<Line("WARNING: couldn't find the executable", <<>>, <<"metaflac">>)>> ELSE <<>>)

\* main up to its loop, on an interpreter it accepts (3.3 or later);
\* parse_args leaves main with SystemExit when the command line names no
\* album (nargs="+") or a checklevel that is not one of the choices
Main ==
    /\ pc = "start"
    /\ out' = out \o Stamp(MissingExecutables(EXTERNALS), 0, <<>>)
    /\ IF Len(argv.albums) > 0 /\ argv.checklevel \in Levels
       THEN /\ configs' = <<ParseArgs(argv)>>
            /\ index' = 1
            /\ pc' = "loop"
       ELSE /\ pc' = "raised"
            /\ UNCHANGED <<configs, index>>
    /\ UNCHANGED <<call, ret, argv, EXTERNALS, version_info, PYTHONHASHSEED, _config, album, stack, trace>>

\* Album(album, config) in the loop of main and the call of its validate;
\* an exception of the constructor is not caught and leaves main
NewAlbum ==
    /\ pc = "loop" /\ index <= Len(argv.albums)
    /\ \E made \in {AlbumInit(argv.albums[index])}, copy \in {CopyConfig(configs)} :
           /\ configs' = copy.heap
           /\ _config' = copy.ref
           /\ IF made.ok
              THEN /\ album' = Some(made.album)
                   /\ stack' = <<[node |-> <<>>, step |-> "pre_validate", child |-> 0]>>
                   /\ pc' = "validating"
              ELSE /\ pc' = "raised"
                   /\ UNCHANGED <<album, stack>>
    /\ UNCHANGED <<call, ret, argv, EXTERNALS, version_info, PYTHONHASHSEED, index, out, trace>>

\* the innermost call of validate
Top == stack[Len(stack)]

\* the innermost call moved on to its next step
Advance(step) == [stack EXCEPT ![Len(stack)].step = step]

\* the orders of the loops of one pre_validate under a seed.
\* REQUIRED_TAGS and REPLAYGAIN_TAGS are sets of the class, looped over in
\* the same order at every node of a level; get_tag_list() - checked_tags
\* and REQUIRED_TAGS & metadata.keys() are sets made for the one loop
HashOrders(seed, run, node) ==
    LET order(loop) == IF loop \in DOMAIN seed.at THEN seed.at[loop] ELSE seed.rest
    IN  [required |-> order(<<"REQUIRED_TAGS", Level(node), 0, <<>> >>),
         replaygain |-> order(<<"REPLAYGAIN_TAGS", Level(node), 0, <<>> >>),
         contents |-> order(<<"get_tag_list", Level(node), run, node>>),
         name |-> order(<<"metadata", Level(node), run, node>>)]

\* self.pre_validate() of the wrapper.  An exception of pre_validate is
\* caught nowhere and leaves main, with the calls of validate in progress
\* as they were; trace records a step when it has returned
PreValidate ==
    /\ pc = "validating" /\ Top.step = "pre_validate"
    /\ \E r \in {pre_validate(Val(album), Top.node, configs[_config],
                               HashOrders(PYTHONHASHSEED, index, Top.node), version_info)} :
           /\ configs' = [configs EXCEPT ![_config] = r.cfg]
           /\ out' = out \o Stamp(r.out, index, Top.node)
           /\ IF r.raised
              THEN /\ pc' = "raised"
                   /\ UNCHANGED <<trace, stack>>
              ELSE /\ trace' = Append(trace, [run |-> index, node |-> Top.node, step |-> "pre_validate"])
                   /\ stack' = Advance("validate")
                   /\ UNCHANGED pc
    /\ UNCHANGED <<call, ret, argv, EXTERNALS, version_info, PYTHONHASHSEED, _config, index, album>>

\* func(self) of the wrapper
Validate ==
    /\ pc = "validating" /\ Top.step = "validate"
    /\ out' = out \o Stamp(validate(Val(album), Top.node, configs[_config], EXTERNALS), index, Top.node)
    /\ trace' = Append(trace, [run |-> index, node |-> Top.node, step |-> "validate"])
    /\ stack' = Advance("post_validate")
    /\ UNCHANGED <<call, ret, argv, EXTERNALS, version_info, PYTHONHASHSEED, configs, _config, pc, index, album>>

\* post_validate goes on: self.level is not self.config.checklevel and the
\* loop over self.children is not over
GoesOn(alb, frame, cfg) ==
    /\ Level(frame.node) # cfg.checklevel
    /\ children(alb, frame.node) = None \/ frame.child < Len(Val(children(alb, frame.node)))

\* x.validate() in the loop of post_validate, for the next child; a track
\* has no children to loop over
PostValidateCall ==
    /\ pc = "validating" /\ Top.step = "post_validate"
    /\ GoesOn(Val(album), Top, configs[_config])
    /\ IF children(Val(album), Top.node) = None
       THEN /\ pc' = "raised"
            /\ UNCHANGED stack
       ELSE /\ stack' = Append([stack EXCEPT ![Len(stack)].child = @ + 1],
                               [node |-> Val(children(Val(album), Top.node))[Top.child + 1],
                                step |-> "pre_validate", child |-> 0])
            /\ UNCHANGED pc
    /\ UNCHANGED <<call, ret, argv, EXTERNALS, version_info, PYTHONHASHSEED, configs, _config, index, album, out, trace>>

\* post_validate returns, and with it the wrapper; when that is the call
\* main made, main goes on with the next album
PostValidateReturn ==
    /\ pc = "validating" /\ Top.step = "post_validate"
    /\ ~GoesOn(Val(album), Top, configs[_config])
    /\ trace' = Append(trace, [run |-> index, node |-> Top.node, step |-> "return"])
    /\ stack' = SubSeq(stack, 1, Len(stack) - 1)
    /\ IF Len(stack) = 1
       THEN pc' = "loop" /\ index' = index + 1 /\ album' = None
       ELSE UNCHANGED <<pc, index, album>>
    /\ UNCHANGED <<call, ret, argv, EXTERNALS, version_info, PYTHONHASHSEED, configs, _config, out>>

\* return 0 after the loop of main
MainReturn ==
    /\ pc = "loop" /\ index > Len(argv.albums)
    /\ pc' = "returned"
    /\ UNCHANGED <<call, ret, argv, EXTERNALS, version_info, PYTHONHASHSEED, configs, _config, index, album, stack, out, trace>>

MainNext == Main \/ NewAlbum \/ PreValidate \/ Validate \/ PostValidateCall \/ PostValidateReturn \/ MainReturn

\* how many seeds of the string hashes the runs are drawn from
MaxSeed == 2

\* the seeds the runs are drawn from: each has one string come first in
\* the loops over REQUIRED_TAGS and another in the loops over the other sets
HashSeeds ==
    {[rest |-> <<n>>,
      at |-> [loop \in {<<"REQUIRED_TAGS", l, 0, <<>> >> : l \in Levels} |-> <<MaxSeed - 1 - n>>]] :
        n \in 0..(MaxSeed - 1)}

\* the interpreters the runs are drawn from: Python 3.6, the last with
\* re._pattern_type, and Python 3.7, the first without; both are among the
\* versions setup.py declares, and int() reads the same digits on both
Versions == {<<3, 6>>, <<3, 7>>}

\* main about to run on a command line, with the executables and under a
\* seed, each drawn from the given set, on one of the interpreters
MainInit(argvs, externals, seeds) ==
    /\ UnitIdle
    /\ argv \in argvs /\ EXTERNALS \in externals /\ PYTHONHASHSEED \in seeds
    /\ version_info \in Versions
    /\ configs = <<>> /\ _config = 0 /\ pc = "start" /\ index = 0
    /\ album = None /\ stack = <<>> /\ out = <<>> /\ trace = <<>>

----------------------------------------------------------------------------
(* Date operations applied to operands drawn from bounded sets              *)

MaxMonth == 3
MaxDay == 2
MonthBound == 13
DayBound == 32

OptOf(S) == {None} \cup {Some(x) : x \in S}

\* operands of the equality checks
EqDates == {Date(Some(y), m, d) : y \in {2000, 2001}, m \in OptOf(1..MaxMonth), d \in OptOf(1..MaxDay)}

\* operands of the string round trip: a year, an optional month and, with a
\* month, an optional day, in and out of the calendar
StrDates == {dt \in {Date(Some(y), m, d) : y \in {1, 999, 2000, 2001, 9999},
                                            m \in OptOf(1..MonthBound), d \in OptOf(1..DayBound)} :
                dt.day # None => dt.month # None}

DateInit ==
    /\ MainIdle
    /\ ret = None
    /\ \/ call \in [op : {"eq"}, a : EqDates, b : EqDates, c : EqDates]
       \/ call \in [op : {"str"}, d : StrDates]

\* a == a, a == b, b == a, b == c and a == c
DateEqCall ==
    /\ call.op = "eq" /\ ret = None
    /\ ret' = Some([aa |-> DateEq(call.a, call.a), ab |-> DateEq(call.a, call.b),
                    ba |-> DateEq(call.b, call.a), bc |-> DateEq(call.b, call.c),
                    ac |-> DateEq(call.a, call.c)])
    /\ UNCHANGED <<call, mainVars>>

\* Date.parse(str(d)) == d
DateStrParseCall ==
    /\ call.op = "str" /\ ret = None
    /\ \E text \in {DateStr(call.d)} :
         \E parsed \in {DateParse(Some(text))} :
           ret' = Some([text |-> text, parsed |-> parsed, equal |-> PyEq(parsed, Some(call.d))])
    /\ UNCHANGED <<call, mainVars>>

DateNext == DateEqCall \/ DateStrParseCall

SpecDate == DateInit /\ [][DateNext]_vars


----------------------------------------------------------------------------
(* File systems drawn from bounded sets                                     *)

MaxDiscs == 2
MaxItems == 4

RECURSIVE Lists(_, _)
\* the lists of at most n elements of S
Lists(S, n) == IF n = 0 THEN {<<>>}
               ELSE {<<>>} \cup {<<x>> \o r : x \in S, r \in Lists(S, n - 1)}

RECURSIVE Groupings(_, _, _)
\* the lists of at most k non-empty lists over S, with at most n elements in all
Groupings(S, k, n) ==
    IF k = 0 \/ n = 0 THEN {<<>>}
    ELSE {<<>>} \cup UNION {{<<g>> \o r : r \in Groupings(S, k - 1, n - Len(g))} :
                                g \in Lists(S, n) \ {<<>>}}

\* "CD1", "CD2", ... and "01 - T.flac", "02 - T.flac", ...
DiscDirName(d) == <<"C", "D">> \o NatDigits(d)

TrackFileName(t) == FormatInt(t, 2) \o <<" ", "-", " ", "T", ".", "f", "l", "a", "c">>

\* a flac file with these tags, which the flac tool verifies and which
\* embeds no picture
Flac(tags) == [tags |-> tags, flac_ok |-> TRUE, picture |-> FALSE]

\* a directory of flac files named by position, and other files beside them
MkDir(name, contents, others) ==
    LET names == [t \in 1..Len(contents) |-> TrackFileName(t)]
    IN  [name |-> name, above |-> <<>>,
         files |-> others \o names,
         content |-> [x \in Range(names) |-> contents[CHOOSE t \in 1..Len(names) : names[t] = x]]]

\* a root directory with one sub-directory CD<d> per group of files
MkRoot(name, groups) ==
    [isdir |-> TRUE, name |-> name,
     dirs |-> [d \in 1..Len(groups) |-> MkDir(Some(DiscDirName(d)), groups[d], <<>>)]]

\* a root directory that holds the files of its only disc itself
MkFlatRoot(name, contents) ==
    [isdir |-> TRUE, name |-> name, dirs |-> <<MkDir(None, contents, <<>>)>>]

----------------------------------------------------------------------------
(* Tag queries applied to albums drawn from bounded sets                    *)

s_a == <<"a">>
s_b == <<"b">>
s_Album == <<"A", "l", "b", "u", "m">>

\* what one track may hold for ARTIST: nothing, one value, or duplicates
ArtistTags == {<<>>, (ARTIST :> <<s_a>>), (ARTIST :> <<s_b, s_a>>)}

TagRoots ==
    {MkRoot(s_Album, g) : g \in Groupings({Flac(t) : t \in ArtistTags}, MaxDiscs, MaxItems)}
    \cup {MkFlatRoot(s_Album, l) : l \in Lists({Flac(t) : t \in ArtistTags}, 2) \ {<<>>}}

TagInit ==
    /\ MainIdle
    /\ ret = None
    /\ \E root \in TagRoots :
         \E alb \in {AlbumInit(root).album} :
           call \in [op : {"_check_all_same", "get_valid_tag", "_get_tag_and_check"},
                     alb : {alb}, node : Range(Nodes(alb, <<>>)), tag : {ARTIST, DATE}]

\* the call prints what its call of get_tag prints
CheckAllSameCall ==
    /\ call.op = "_check_all_same" /\ ret = None
    /\ ret' = Some(_check_all_same(call.alb, call.node, call.tag))
    /\ out' = out \o Stamp(get_tag_out(call.alb, call.node, call.tag), 0, call.node)
    /\ UNCHANGED <<call, argv, EXTERNALS, version_info, PYTHONHASHSEED, configs, _config, pc, index, album, stack, trace>>

\* the call prints what its call of get_tag prints
GetValidTagCall ==
    /\ call.op = "get_valid_tag" /\ ret = None
    /\ ret' = Some(get_valid_tag(call.alb, call.node, call.tag))
    /\ out' = out \o Stamp(get_tag_out(call.alb, call.node, call.tag), 0, call.node)
    /\ UNCHANGED <<call, argv, EXTERNALS, version_info, PYTHONHASHSEED, configs, _config, pc, index, album, stack, trace>>

\* the call prints what _check_all_same and, where it is called,
\* get_valid_tag print
GetTagAndCheckCall ==
    /\ call.op = "_get_tag_and_check" /\ ret = None
    /\ ret' = Some(_get_tag_and_check(call.alb, call.node, call.tag))
    /\ out' = out \o Stamp(get_tag_and_check_out(call.alb, call.node, call.tag), 0, call.node)
    /\ UNCHANGED <<call, argv, EXTERNALS, version_info, PYTHONHASHSEED, configs, _config, pc, index, album, stack, trace>>

TagNext == CheckAllSameCall \/ GetValidTagCall \/ GetTagAndCheckCall

SpecTag == TagInit /\ [][TagNext]_vars


----------------------------------------------------------------------------
(* Validation passes over albums whose TOTAL tags are drawn from bounded    *)
(* sets                                                                     *)

MaxTracks == 4

\* the tags of a track that has the named tag when a value is given
OptTag(name, value) == IF value = None THEN <<>> ELSE (name :> <<Val(value)>>)

\* what a TOTAL tag may say of a node with count children: nothing, the
\* count, one less, one more, or no number
TotalsFor(count) ==
    {None, Some(NatDigits(count)), Some(NatDigits(count - 1)), Some(NatDigits(count + 1)), Some(<<"x">>)}

\* the discs of count tracks: every track with the same TRACKTOTAL, or the
\* first track without it
TotalDiscs(count) ==
    {[t \in 1..count |-> OptTag(TRACKTOTAL, v)] : v \in TotalsFor(count)}
    \cup {[t \in 1..count |-> IF t = 1 THEN <<>> ELSE OptTag(TRACKTOTAL, Some(NatDigits(count)))]}

RECURSIVE TotalAlbums(_)
\* the albums of k discs: each disc but the last has one track, without
\* TRACKTOTAL or with TRACKTOTAL 1 or 2, and the last has up to MaxTracks
TotalAlbums(k) ==
    IF k = 1 THEN {<<d>> : d \in UNION {TotalDiscs(c) : c \in 1..MaxTracks}}
    ELSE {<<d>> \o r : d \in {<<OptTag(TRACKTOTAL, v)>> : v \in {None, Some(NatDigits(1)), Some(NatDigits(2))}},
                         r \in TotalAlbums(k - 1)}

\* the album with DISCTOTAL set on every track
WithDiscTotal(discs, v) ==
    [d \in 1..Len(discs) |-> [t \in 1..Len(discs[d]) |-> Flac(discs[d][t] @@ OptTag(DISCTOTAL, v))]]

TotalRoots ==
    UNION {{MkRoot(s_Album, WithDiscTotal(discs, v)) : discs \in TotalAlbums(k), v \in TotalsFor(k)} :
              k \in 1..MaxDiscs}

\* the command line "<root>" with the default options
DefaultArgs(roots) ==
    [albums |-> roots, checklevel |-> "track", no_replaygain |-> FALSE, no_flactest |-> FALSE,
     no_albumartist |-> FALSE, no_trackartist |-> FALSE, no_cue_log |-> FALSE]

NoExternals == [flac |-> FALSE, metaflac |-> FALSE]

TotalsInit == MainInit({DefaultArgs(<<root>>) : root \in TotalRoots}, {NoExternals}, HashSeeds)

SpecTotals == TotalsInit /\ [][MainNext]_vars


----------------------------------------------------------------------------
(* Validation passes over albums whose NUMBER tags are drawn from bounded   *)
(* sets                                                                     *)

MaxNumbered == 3

s_9 == <<"9">>
s_10 == <<"1", "0">>
s_x == <<"x">>

\* what a track may hold for a NUMBER tag
NumberTexts == {None, Some(s_9), Some(s_10), Some(s_x)}

\* albums of up to MaxNumbered tracks on up to MaxDiscs discs, the tracks
\* with DISCNUMBER or with TRACKNUMBER
SortRoots ==
    UNION {{MkRoot(s_Album, g) : g \in Groupings({Flac(OptTag(tag, v)) : v \in NumberTexts}, MaxDiscs, MaxNumbered)} :
              tag \in {DISCNUMBER, TRACKNUMBER}}

\* the command line "--checklevel disc <root>"
SortInit ==
    MainInit({[DefaultArgs(<<root>>) EXCEPT !.checklevel = "disc"] : root \in SortRoots}, {NoExternals}, HashSeeds)

SpecSort == SortInit /\ [][MainNext]_vars


----------------------------------------------------------------------------
(* Validation passes over albums of every small shape, down to every level  *)

MaxWalk == 3

s_va == <<"V", "A">>

\* a flac file that fails the flac test, embeds a picture and names various
\* artists
BadFlac == [tags |-> (ARTIST :> <<s_va>>), flac_ok |-> FALSE, picture |-> TRUE]

WalkRoots ==
    {MkRoot(s_Album, g) : g \in Groupings({Flac(<<>>), BadFlac}, MaxDiscs, MaxWalk)}
    \cup {MkFlatRoot(s_Album, l) : l \in Lists({Flac(<<>>), BadFlac}, 2) \ {<<>>}}

BothExternals == [flac |-> TRUE, metaflac |-> TRUE]

\* command lines parse_args refuses: "" names no album and "--checklevel
\* song <root>" a checklevel that is none
RefusedArgs ==
    {DefaultArgs(<<>>),
     [DefaultArgs(<<MkFlatRoot(s_Album, <<Flac(<<>>)>>)>>) EXCEPT !.checklevel = "song"]}

\* the command line "--checklevel <level> <root>", and those refused
WalkInit ==
    MainInit({[DefaultArgs(<<root>>) EXCEPT !.checklevel = level] : root \in WalkRoots, level \in Levels}
                \cup RefusedArgs,
             {NoExternals, BothExternals}, HashSeeds)

SpecWalk == WalkInit /\ [][MainNext]_vars


----------------------------------------------------------------------------
(* Runs of main over several roots, some of them missing                    *)

MaxRoots == 3

s_A == <<"A">>

\* a path that is not a directory
MissingRoot == [isdir |-> FALSE, name |-> <<"n", "o", "n", "e">>, dirs |-> <<>>]

\* an album not ripped from CD, with one disc of one tagged track
WebRoot == MkRoot(<<"A", " ", "(", "2", "0", "0", "0", ")", " ", "[", "W", "E", "B", "-", "F", "L", "A", "C", "]">>, <<<<Flac((ALBUM :> <<s_A>>))>>>>)

\* an album ripped from CD, its only track untagged and in the root itself
CDRoot == MkFlatRoot(<<"B", " ", "(", "2", "0", "0", "0", ")", " ", "[", "C", "D", "-", "F", "L", "A", "C", "]">>, <<Flac(<<>>)>>)

\* the command lines "[--no-cue-log] <root> ..." of up to MaxRoots roots
RootsInit ==
    MainInit({[DefaultArgs(roots) EXCEPT !.no_cue_log = flag] :
                 roots \in Lists({MissingRoot, WebRoot, CDRoot}, MaxRoots) \ {<<>>}, flag \in BOOLEAN},
             {NoExternals}, HashSeeds)

SpecRoots == RootsInit /\ [][MainNext]_vars


----------------------------------------------------------------------------
(* Validation passes over albums whose names and tags are drawn from small  *)
(* sets                                                                     *)

s_Artist == <<"A", "r", "t", "i", "s", "t">>
s_Albun == <<"A", "l", "b", "u", "n">>
s_2001 == <<"2", "0", "0", "1">>
s_T == <<"T">>

s_CD == <<"C", "D">>

AlbumNames == {<<"A", "r", "t", "i", "s", "t", " ", "-", " ", "A", "l", "b", "u", "m", " ", "(", "2", "0", "0", "1", ")", " ", "[", "C", "D", "-", "F", "L", "A", "C", "]">>,
               <<"A", "r", "t", "i", "s", "t", " ", "-", " ", "A", "l", "-", "b", "u", "m", " ", "(", "2", "0", "0", "1", "-", "0", "5", ")", " ", "[", "C", "D", "-", "F", "L", "A", "C", "]">>}

\* the album tags of a track, each absent or with one of a few values
AlbumTags ==
    {OptTag(ALBUM, a) @@ OptTag(ALBUMARTIST, aa) @@ OptTag(ORIGDATE, o) @@ OptTag(DATE, d) @@ OptTag(MEDIA, m) :
        a \in {None, Some(s_Album), Some(s_Albun), Some(<<"A", "l", "/", "b", "u", "m">>)},
        aa \in {None, Some(s_Artist)},
        o \in {None, Some(s_2001), Some(<<"1", "9", "9", "9">>)},
        d \in {None, Some(s_2001), Some(<<"2", "0", "0", "1", "-", "0", "5">>), Some(<<"2", "0", "0", "2">>)},
        m \in {None, Some(s_CD)}}

\* the disc and track tags of a track
TrackTags ==
    {OptTag(DISCNUMBER, dn) @@ OptTag(TRACKNUMBER, tn) @@ OptTag(TITLE, ti) @@ OptTag(ARTIST, ar) :
        dn \in {None, Some(<<"1">>), Some(<<"2">>)},
        tn \in {None, Some(<<"0", "1">>), Some(<<"1">>)},
        ti \in {None, Some(s_T), Some(<<"U">>)},
        ar \in {None, Some(s_Artist)}}

\* the tags of the album of the example
ExampleTags ==
    (ALBUM :> <<s_Album>>) @@ (ALBUMARTIST :> <<s_Artist>>) @@ (DATE :> <<s_2001>>) @@ (MEDIA :> <<s_CD>>)

\* albums of one track in CD1 with every choice of album tags, albums of two
\* tracks that agree on no ALBUM, and albums of the example with every choice
\* of disc and track tags
NameArgs ==
    {[DefaultArgs(<<MkRoot(name, <<<<Flac(tags)>>>>)>>) EXCEPT !.checklevel = "album"] :
        name \in AlbumNames, tags \in AlbumTags}
    \cup {[DefaultArgs(<<MkRoot(name, <<<<Flac(ExampleTags), Flac([ExampleTags EXCEPT ![ALBUM] = <<s_Albun>>])>>>>)>>)
              EXCEPT !.checklevel = "album"] : name \in AlbumNames}
    \cup {DefaultArgs(<<MkRoot(name, <<<<Flac(ExampleTags @@ tags)>>>>)>>) :
             name \in AlbumNames, tags \in TrackTags}

NamesInit == MainInit(NameArgs, {NoExternals}, HashSeeds)

SpecNames == NamesInit /\ [][MainNext]_vars

----------------------------------------------------------------------------
(* Claims about Date, checked under SpecDate                                *)

\* how many of year, month, day a date states, read in that order
Precision(d) == IF d.month = None THEN 1 ELSE IF d.day = None THEN 2 ELSE 3

DateField(d, n) == IF n = 1 THEN d.year ELSE IF n = 2 THEN d.month ELSE d.day

\* C3: Date equality is reflexive and symmetric, and two dates are equal
\* exactly when they agree on the fields that the less precise of the two
\* states (year; year and month; or year, month and day).
C3_DateEqShallowerPrecision ==
    (call.op = "eq" /\ ret # None) =>
        /\ Val(ret).aa
        /\ Val(ret).ab = Val(ret).ba
        /\ Val(ret).ab = (\A n \in 1..Smaller(Precision(call.a), Precision(call.b)) :
                              DateField(call.a, n) = DateField(call.b, n))

\* C3 (witness): equality is not transitive: 2000-02 == 2000 and
\* 2000 == 2000-03, but 2000-02 != 2000-03.
C3_NotTransitive ==
    /\ call.op = "eq" /\ ret # None
    /\ call.a = Date(Some(2000), Some(2), None)
    /\ call.b = Date(Some(2000), None, None)
    /\ call.c = Date(Some(2000), Some(3), None)
    /\ Val(ret).ab /\ Val(ret).bc /\ ~Val(ret).ac

\* a date of the calendar: year 1..9999, month unset or 1..12, day unset or
\* a day of that month (and then the month is set)
IsCalendarDate(d) ==
    /\ Val(d.year) \in 1..9999
    /\ d.month # None => Val(d.month) \in 1..12
    /\ d.day # None => (d.month # None /\ Val(d.day) \in 1..DaysInMonth(Val(d.year), Val(d.month)))

\* C4 (as claimed): Date.parse(str(d)) == d for every constructed Date d.
C4_RoundTripAnyDate ==
    (call.op = "str" /\ ret # None) => Val(ret).equal

\* C4 (amended): Date.parse(str(d)) == d for every Date d that is a date of
\* the calendar.
C4_RoundTripCalendarDate ==
    (call.op = "str" /\ ret # None /\ IsCalendarDate(call.d)) => Val(ret).equal

\* C4 (witness): 2000-02-29 has been printed as "2000-02-29" and parsed back
C4_RoundTripDone ==
    /\ call.op = "str" /\ ret # None
    /\ call.d = Date(Some(2000), Some(2), Some(29))
    /\ Val(ret).text = <<"2", "0", "0", "0", "-", "0", "2", "-", "2", "9">>
    /\ Val(ret).parsed = Some(call.d)
    /\ Val(ret).equal

----------------------------------------------------------------------------
(* Claims about tag aggregation, checked under SpecTag                      *)

\* the entry of one track for a tag: the first stored value, or the
\* placeholder None when the track does not carry the tag
Entry(alb, t, tag) ==
    IF tag \in DOMAIN TrackAt(alb, t).tags THEN Some(TrackAt(alb, t).tags[tag][1]) ELSE None

\* the entries of the items of the subtree under the call
Entries == LET ts == Tracks(call.alb, call.node)
           IN  [n \in 1..Len(ts) |-> Entry(call.alb, ts[n], call.tag)]

AllPlaceholders == \A n \in 1..Len(Entries) : Entries[n] = None

NoPlaceholder == \A n \in 1..Len(Entries) : Entries[n] # None

AllAgree == \A n, m \in 1..Len(Entries) : Entries[n] = Entries[m]

\* C1 (as claimed): the classification is ALL iff every item's entry is the
\* placeholder, NONE iff no entry is the placeholder and all values agree,
\* and SOME in every other case.
C1_ClassifyAsClaimed ==
    (call.op = "_check_all_same" /\ ret # None) =>
        /\ Val(ret).code = "ALL" <=> AllPlaceholders
        /\ Val(ret).code = "NONE" <=> (NoPlaceholder /\ AllAgree)
        /\ Val(ret).code = "SOME" <=> ~AllPlaceholders /\ ~(NoPlaceholder /\ AllAgree)

\* C1 (amended): the classification is ALL iff the subtree has at least one
\* item and every item's entry is the placeholder, NONE iff no item's entry
\* is the placeholder (whether or not the values agree), and SOME in every
\* other case; disagreeing values are reported by the flag multiple, which
\* is true iff two items carry different values.
C1_ClassifyMissing ==
    (call.op = "_check_all_same" /\ ret # None) =>
        /\ Val(ret).code = "ALL" <=> (Len(Entries) > 0 /\ AllPlaceholders)
        /\ Val(ret).code = "NONE" <=> NoPlaceholder
        /\ Val(ret).code = "SOME" <=> (~AllPlaceholders /\ ~NoPlaceholder)
        /\ Val(ret).multiple <=> \E n, m \in 1..Len(Entries) :
                                     Entries[n] # None /\ Entries[m] # None /\ Entries[n] # Entries[m]

\* C1 (witness): an album of two discs whose items all carry ARTIST, with two
\* different values, has been classified NONE with multiple set
C1_ClassifiedDisagreeing ==
    /\ call.op = "_check_all_same" /\ ret # None
    /\ call.node = <<>> /\ Len(call.alb.discs) = 2
    /\ NoPlaceholder /\ ~AllAgree
    /\ Val(ret).code = "NONE" /\ Val(ret).multiple

\* C2: get_valid_tag returns a value v iff _check_all_same classifies the tag
\* NONE with multiple false over a subtree of at least one item, and v is
\* then the value every item carries; otherwise it returns None; and the
\* value of _get_tag_and_check is the one get_valid_tag returns.
C2_ValidTagIffConsistent ==
    /\ (call.op = "get_valid_tag" /\ ret # None) =>
         LET c == _check_all_same(call.alb, call.node, call.tag)
         IN  /\ Val(ret) # None <=> (c.code = "NONE" /\ ~c.multiple /\ Len(Entries) > 0)
             /\ Val(ret) # None => \A n \in 1..Len(Entries) : Entries[n] = Val(ret)
             /\ Val(ret) = None => (~NoPlaceholder \/ ~AllAgree \/ Len(Entries) = 0)
    /\ (call.op = "_get_tag_and_check" /\ ret # None) =>
         Val(ret).value = get_valid_tag(call.alb, call.node, call.tag)

\* C2 (witness): get_valid_tag has returned "b" for an album of two discs and
\* three items, each holding "b" as the first of two duplicate values
C2_ValidTagReturned ==
    /\ call.op = "get_valid_tag" /\ ret # None
    /\ call.node = <<>> /\ Len(call.alb.discs) = 2 /\ Len(Entries) = 3
    /\ call.tag = ARTIST
    /\ \A t \in 1..3 : LET tags == TrackAt(call.alb, Tracks(call.alb, <<>>)[t]).tags
                        IN  ARTIST \in DOMAIN tags /\ tags[ARTIST] = <<s_b, s_a>>
    /\ Val(ret) = Some(s_b)

----------------------------------------------------------------------------
(* Claims about the number checks, checked under SpecTotals                 *)

\* the nodes of the current pass whose pre_validate has run
Checked == {trace[n].node : n \in {m \in 1..Len(trace) : trace[m].run = index /\ trace[m].step = "pre_validate"}}

\* the number of lines of a kind printed in the current pass at a node
Printed(kind, node) ==
    Cardinality({n \in 1..Len(out) : out[n].run = index /\ out[n].at = node /\ out[n].kind = kind})

\* the number of lines of a kind printed at a node in the pass over the
\* album at a position of the command line
PrintedIn(run, kind, node) ==
    Cardinality({n \in 1..Len(out) : out[n].run = run /\ out[n].at = node /\ out[n].kind = kind})

\* the interpreter has re._pattern_type
HasPatternType == version_info[1] = 3 /\ version_info[2] < 7

\* pre_validate of the node raised and ended main: its first line was
\* printed and the call did not return
RaisedAt(node) ==
    /\ pc = "raised" /\ stack # <<>>
    /\ Top.node = node /\ Top.step = "pre_validate"
    /\ Printed("Validating", node) = 1

TotalTag(node) == IF Level(node) = "album" THEN DISCTOTAL ELSE TRACKTOTAL

\* the TOTAL tag of the node is consistent and reads as the number total
HasTotal(alb, node, total) ==
    /\ get_valid_tag(alb, node, TotalTag(node)) # None
    /\ ParseInt(Val(get_valid_tag(alb, node, TotalTag(node)))) = Some(total)

ChildCount(alb, node) == Len(Val(children(alb, node)))

\* an album of two discs: the first without TRACKTOTAL, the second with four
\* tracks and TRACKTOTAL=5, and no DISCTOTAL
TwoDiscScenario(alb) ==
    /\ Len(alb.discs) = 2
    /\ get_tag(alb, <<1>>, TRACKTOTAL, FALSE) = <<>>
    /\ Len(alb.discs[2].tracks) = 4
    /\ HasTotal(alb, <<2>>, 5)
    /\ get_tag(alb, <<>>, DISCTOTAL, FALSE) = <<>>

\* C5 (as claimed): when main has ended after the pass over an album, every
\* album or disc node whose consistent TOTAL tag differs by one from its
\* number of children has exactly one total-mismatch line and every one whose
\* TOTAL tag equals that number has none; in the album of two discs, the
\* first without TRACKTOTAL and the second with TRACKTOTAL=5 and four tracks,
\* the second disc is the only node with such a line.
C5_TotalMismatchReported ==
    pc \in {"returned", "raised"} =>
      LET alb == AlbumInit(argv.albums[1]).album
          found(node) == PrintedIn(1, "Problem with TOTAL tag (found)", node)
          nodes == {node \in Range(Nodes(alb, <<>>)) : Level(node) # "track"}
      IN  /\ \A node \in nodes :
                /\ HasTotal(alb, node, ChildCount(alb, node)) => found(node) = 0
                /\ HasTotal(alb, node, ChildCount(alb, node) + 1) => found(node) = 1
                /\ HasTotal(alb, node, ChildCount(alb, node) - 1) => found(node) = 1
          /\ TwoDiscScenario(alb) => {node \in nodes : found(node) > 0} = {<<2>>}

\* on Python 3.7 the pass over the two-disc album has ended in pre_validate
\* of the second disc, where TRACKTOTAL is the first consistent tag of the
\* pass: process_tagmap raised before validate_number_metadata, and no
\* total-mismatch line was printed
C5_SecondDiscUnreported ==
    /\ RaisedAt(<<2>>) /\ ~HasPatternType
    /\ TwoDiscScenario(Val(album))
    /\ TRACKTOTAL \in configs[_config].checked_tags
    /\ \A n \in 1..Len(out) : out[n].kind # "Problem with TOTAL tag (found)"

NumberTag(node) == IF Level(node) = "album" THEN DISCNUMBER ELSE TRACKNUMBER

\* the NUMBER values collected below a node, in child order
Numbers(alb, node) == get_tag(alb, node, NumberTag(node), FALSE)

AllNumeric(texts) == \A n \in 1..Len(texts) : ParseInt(Val(texts[n])) # None

\* the places where a value is followed by a smaller one
Inversions(texts) ==
    {n \in 1..(Len(texts) - 1) : Val(ParseInt(Val(texts[n]))) > Val(ParseInt(Val(texts[n + 1])))}

StrictlyIncreasing(texts) ==
    \A n \in 1..(Len(texts) - 1) : Val(ParseInt(Val(texts[n]))) < Val(ParseInt(Val(texts[n + 1])))

\* C6: while an album is validated, every album or disc node whose
\* validate_number_metadata has run has no sort line when the NUMBER values
\* collected below it are strictly increasing integers, exactly one sort line
\* when they are integers and a single adjacent pair is out of order, and,
\* when one of them is not a number, the 'not checking sort order' warning
\* and no sort line.
C6_SortFinding ==
    pc = "validating" =>
      \A node \in Checked :
        Level(node) # "track" =>
          LET texts == Numbers(Val(album), node)
              sort == Printed("do not sort properly", node)
              warning == Printed("WARNING: Not checking sort order", node)
          IN  IF AllNumeric(texts)
              THEN /\ StrictlyIncreasing(texts) => sort = 0 /\ warning = 0
                   /\ Cardinality(Inversions(texts)) = 1 => sort = 1 /\ warning = 0
              ELSE sort = 0 /\ warning = 1

\* a disc whose three TRACKNUMBERs are 9, 10, 9 has been validated and one
\* sort line was printed there
C6_OnePairOutOfOrder ==
    /\ pc = "validating"
    /\ \E node \in Checked :
          /\ Level(node) = "disc"
          /\ Numbers(Val(album), node) = <<Some(s_9), Some(s_10), Some(s_9)>>
          /\ Printed("do not sort properly", node) = 1

----------------------------------------------------------------------------
(* Claims about the traversal, checked under SpecWalk                       *)

RECURSIVE Walk(_, _, _, _)
\* the steps of a depth-first pass in pre-order: at a node pre_validate, then
\* the body, then, unless the node is at the level to stop at, the passes of
\* its children in their stored order, then the return
Walk(run, alb, node, checklevel) ==
    <<[run |-> run, node |-> node, step |-> "pre_validate"],
      [run |-> run, node |-> node, step |-> "validate"]>>
    \o (IF Level(node) = checklevel THEN <<>>
        ELSE LET cs == Val(children(alb, node))
             IN  Flatten([c \in 1..Len(cs) |-> Walk(run, alb, cs[c], checklevel)]))
    \o <<[run |-> run, node |-> node, step |-> "return"]>>

\* the steps taken so far for the album at a position of the command line
RunTrace(run) ==
    LET picked == {n \in 1..Len(trace) : trace[n].run = run}
    IN  [k \in 1..Cardinality(picked) |->
            trace[CHOOSE n \in picked : Cardinality({m \in picked : m <= n}) = k]]

IsPrefix(xs, ys) == Len(xs) <= Len(ys) /\ xs = SubSeq(ys, 1, Len(xs))

\* the level is at or above the level to stop at
AtOrAbove(level, checklevel) ==
    \/ level = "album"
    \/ level = "disc" /\ checklevel # "album"
    \/ level = "track" /\ checklevel = "track"

\* C7 (as claimed): the steps of the pass over an album are, as far as the
\* pass has come, those of the depth-first pre-order walk that stops at
\* checklevel (at each node pre_validate, then the body, then the children in
\* stored order), and once the pass is over, or main is, it has taken all of
\* them: the nodes validated are exactly those at or above checklevel, each
\* once, whatever was found at a node.
C7_EveryNodeVisitedOnce ==
    \A run \in 1..Len(argv.albums) :
      (run <= index /\ pc # "start" /\ AlbumInit(argv.albums[run]).ok) =>
        LET alb == AlbumInit(argv.albums[run]).album
            walk == Walk(run, alb, <<>>, configs[1].checklevel)
            done == RunTrace(run)
            pre == {n \in 1..Len(done) : done[n].step = "pre_validate"}
            over == run < index \/ pc \in {"returned", "raised"}
        IN  /\ IsPrefix(done, walk)
            /\ over => done = walk
            /\ \A n \in pre : AtOrAbove(Level(done[n].node), configs[1].checklevel)
            /\ \A n, m \in pre : done[n].node = done[m].node => n = m
            /\ over =>
                  {done[n].node : n \in pre}
                  = {node \in Range(Nodes(alb, <<>>)) : AtOrAbove(Level(node), configs[1].checklevel)}

\* on Python 3.7 a pass down to the tracks over an album of two discs has
\* ended in pre_validate of the first disc, whose tracks share an ARTIST,
\* after the album was validated and told of a problem with a tag: the body
\* of the first disc, its tracks and the second disc were never visited
C7_PassAborted ==
    /\ RaisedAt(<<1>>) /\ ~HasPatternType
    /\ argv.checklevel = "track"
    /\ Len(Val(album).discs) = 2
    /\ get_valid_tag(Val(album), <<1>>, ARTIST) # None
    /\ Printed("Problem with tag", <<>>) > 0
    /\ \E n \in 1..Len(trace) : trace[n].node = <<>> /\ trace[n].step = "validate"
    /\ \A n \in 1..Len(trace) : trace[n].node = <<>>
    /\ \A n \in 1..Len(out) : out[n].at \in {<<>>, <<1>>}

----------------------------------------------------------------------------
(* Claims about main, checked under SpecRoots                               *)

\* the pass over the album at a position of the command line has finished
Validated(run) ==
    \E n \in 1..Len(trace) : trace[n].run = run /\ trace[n].node = <<>> /\ trace[n].step = "return"

\* C8 (as claimed): when main has ended, every root that is a directory has
\* been constructed and validated, whether or not another root of the
\* command line is missing.
C8_OtherRootsValidated ==
    pc \in {"returned", "raised"} =>
      \A run \in 1..Len(argv.albums) : argv.albums[run].isdir => Validated(run)

\* main has ended at a missing root with the exception of the constructor,
\* and a directory later on the command line was never validated
C8_MissingRootEndsMain ==
    /\ pc = "raised"
    /\ ~argv.albums[index].isdir
    /\ \E run \in (index + 1)..Len(argv.albums) : argv.albums[run].isdir /\ ~Validated(run)
    /\ \A n \in 1..Len(trace) : trace[n].run < index

\* the pass over the current album has not taken a step yet
PassStarts == pc = "validating" /\ \A n \in 1..Len(trace) : trace[n].run # index

\* C9: the Namespace that parse_args made stays as the command line set it
\* from the start of the loop of main on, an album's _config is an object of
\* its own, and at the start of its pass it holds the values of the command
\* line and an empty checked_tags, whatever the passes before it wrote.
C9_ConfigNotLeaked ==
    pc # "start" =>
      /\ configs[1] = ParseArgs(argv)
      /\ pc = "validating" => _config # 1
      /\ PassStarts => configs[_config] = [checked_tags |-> {}] @@ ParseArgs(argv)

\* the pass over the second album starts with the cue and log check on and
\* no tag checked, after the pass over the first album, named as a WEB rip,
\* switched the check off and recorded the tags it checked
C9_SecondPassStarts ==
    /\ PassStarts /\ index = 2
    /\ ~argv.no_cue_log
    /\ configs[2].no_cue_log /\ configs[2].checked_tags # {}
    /\ ~configs[3].no_cue_log /\ configs[3].checked_tags = {}

----------------------------------------------------------------------------
(* Claims about the names, checked under SpecNames                          *)

\* the number of lines of a kind about a tag printed in the current pass at
\* a node
PrintedFor(kind, tag, node) ==
    Cardinality({n \in 1..Len(out) : out[n].run = index /\ out[n].at = node
                                     /\ out[n].kind = kind /\ out[n].tag = tag})

\* the configuration the names of the run are matched under
NameConfig == ParseArgs(argv)

\* the groups of the name of a node that matched, or None
Captured(alb, node) ==
    IF NodeName(alb, node) = None THEN None
    ELSE MatchName(Level(node), NameConfig, Val(NodeName(alb, node)))

\* the fields among the groups of a name that are required tags of a level
Fields(level, caps) ==
    IF caps = None THEN {}
    ELSE {f \in REQUIRED_TAGS(level) \cap GroupNames : Val(caps)[f] # None}

\* ORIGDATE is not consistent at the node, so that DATE stands in for it
FallsBack(alb, node, field) == field = ORIGDATE /\ get_valid_tag(alb, node, ORIGDATE) = None

\* the tag a field of the name is compared with
Compared(alb, node, field) == IF FallsBack(alb, node, field) THEN DATE ELSE field

\* the album of the example, with the given ALBUM on its only track
IsExample(alb, value) ==
    /\ alb.name = <<"A", "r", "t", "i", "s", "t", " ", "-", " ", "A", "l", "b", "u", "m", " ", "(", "2", "0", "0", "1", ")", " ", "[", "C", "D", "-", "F", "L", "A", "C", "]">>
    /\ Len(alb.discs) = 1 /\ Len(alb.discs[1].tracks) = 1
    /\ alb.discs[1].tracks[1].tags = [ExampleTags EXCEPT ![ALBUM] = <<value>>]

----------------------------------------------------------------------------
(* Validation passes over discs whose track names and ARTIST tags are drawn *)
(* from small sets                                                          *)

MaxNamed == 2

\* the file names of the track at a position: with an artist field, without
\* one, and one that does not match the pattern of track names
TrackNameChoices(t) ==
    {FormatInt(t, 2) \o <<" ", "-", " ", "A", "r", "t", "i", "s", "t", " ", "-", " ", "T", "i", "t", "l", "e", ".", "f", "l", "a", "c">>,
     FormatInt(t, 2) \o <<" ", "-", " ", "T", "i", "t", "l", "e", ".", "f", "l", "a", "c">>,
     FormatInt(t, 2) \o <<".", "f", "l", "a", "c">>}

\* a track without ARTIST, or with one of two
NamedArtistTags == {OptTag(ARTIST, a) : a \in {None, Some(s_Artist), Some(s_b)}}

RECURSIVE NamedTracks(_)
\* the lists of n named tracks: [name, file]
NamedTracks(n) ==
    IF n = 0 THEN {<<>>}
    ELSE {Append(r, [name |-> x, file |-> Flac(tags)]) :
             r \in NamedTracks(n - 1), x \in TrackNameChoices(n), tags \in NamedArtistTags}

\* a root directory with the named tracks in its sub-directory CD1
MkNamedRoot(name, tracks) ==
    [isdir |-> TRUE, name |-> name,
     dirs |-> <<[name |-> Some(DiscDirName(1)), above |-> <<>>,
                 files |-> [t \in 1..Len(tracks) |-> tracks[t].name],
                 content |-> [x \in {tracks[t].name : t \in 1..Len(tracks)} |->
                                 tracks[CHOOSE t \in 1..Len(tracks) : tracks[t].name = x].file]]>>]

\* the command lines "[--no-trackartist] <root>"
TrackNamesInit ==
    MainInit({[DefaultArgs(<<MkNamedRoot(s_Album, l)>>) EXCEPT !.no_trackartist = flag] :
                 l \in UNION {NamedTracks(n) : n \in 1..MaxNamed}, flag \in BOOLEAN},
             {NoExternals}, HashSeeds)

SpecTrackNames == TrackNamesInit /\ [][MainNext]_vars

----------------------------------------------------------------------------
(* Claims about the artist in track names, checked under SpecTrackNames     *)

\* the values that the tracks of a disc carry for a tag
ValuesOn(alb, disc, tag) ==
    LET ts == Tracks(alb, disc)
    IN  {Val(Entry(alb, ts[n], tag)) : n \in {m \in 1..Len(ts) : Entry(alb, ts[m], tag) # None}}

\* every track of a disc carries the tag
CarriedByAll(alb, disc, tag) ==
    LET ts == Tracks(alb, disc)
    IN  \A n \in 1..Len(ts) : Entry(alb, ts[n], tag) # None

\* C11 (as claimed): when main has ended after a pass down to the tracks, for
\* every track whose name matches the pattern of track names, the 'artist is
\* redundant in the track name' line is printed (once) iff every track of
\* its disc carries the same ARTIST and the name has an artist field; the
\* 'track name should include the ARTIST' line is printed (once) iff the
\* ARTIST tags of the disc have more than one value and the name has no
\* artist field; never both for one track.
C11_ArtistInTrackNameReported ==
    pc \in {"returned", "raised"} =>
      LET alb == AlbumInit(argv.albums[1]).album
          ts == Tracks(alb, <<>>)
      IN  \A t \in 1..Len(ts) :
            LET node == ts[t]
                caps == Captured(alb, node)
                disc == <<node[1]>>
                redundant == PrintedIn(1, "ARTIST tags are all the same and therefore shouldn't be in the track name", node)
                include == PrintedIn(1, "Multiple ARTIST tags - the track should include the ARTIST", node)
            IN  caps # None =>
                  LET encodes == Val(caps)[ARTIST] # None
                      single == CarriedByAll(alb, disc, ARTIST) /\ Cardinality(ValuesOn(alb, disc, ARTIST)) = 1
                      several == Cardinality(ValuesOn(alb, disc, ARTIST)) > 1
                  IN  /\ redundant = (IF single /\ encodes THEN 1 ELSE 0)
                      /\ include = (IF several /\ ~encodes THEN 1 ELSE 0)
                      /\ redundant + include <= 1

\* on Python 3.7 the pass over a disc of two tracks that both carry
\* ARTIST=Artist, the first named "01 - Artist - Title.flac", has ended in
\* pre_validate of the album, where ARTIST is consistent: no track was
\* validated and the artist was not found redundant
C11_RedundantUnreported ==
    /\ RaisedAt(<<>>) /\ ~HasPatternType
    /\ ~argv.no_trackartist
    /\ Len(Val(album).discs[1].tracks) = 2
    /\ Val(NodeName(Val(album), <<1, 1>>)) = <<"0", "1", " ", "-", " ", "A", "r", "t", "i", "s", "t", " ", "-", " ", "T", "i", "t", "l", "e", ".", "f", "l", "a", "c">>
    /\ \A t \in 1..2 : Entry(Val(album), <<1, t>>, ARTIST) = Some(s_Artist)
    /\ trace = <<>>
    /\ \A n \in 1..Len(out) : out[n].at = <<>>

----------------------------------------------------------------------------
(* Validation passes over albums whose tag names and values are drawn from  *)
(* small sets: well and badly formed dates, values with whitespace, names   *)
(* of the table of bad tags                                                 *)

MaxContent == 3

ALBUMSORT == <<"A", "L", "B", "U", "M", "S", "O", "R", "T">>
YEAR == <<"Y", "E", "A", "R">>
s_bad == <<"b", "a", "d">>

\* the tags of a track: a good date under two names and a name to remove; a
\* date that does not parse; a date with a trailing tab and a title of one
\* space; an empty title
ContentTags ==
    {(DATE :> <<s_2001>>) @@ (YEAR :> <<s_2001>>) @@ (ALBUMSORT :> <<s_a>>),
     (DATE :> <<s_bad>>) @@ (ALBUMSORT :> <<s_b>>),
     (DATE :> <<s_2001 \o <<"\t">>>>) @@ (TITLE :> << <<" ">> >>),
     (DATE :> <<s_2001>>) @@ (TITLE :> << <<>> >>)}

ContentRoots ==
    {MkRoot(s_Album, g) : g \in Groupings({Flac(tags) : tags \in ContentTags}, MaxDiscs, MaxContent) \ {<<>>}}

ContentsInit == MainInit({DefaultArgs(<<root>>) : root \in ContentRoots}, {NoExternals}, HashSeeds)

SpecContents == ContentsInit /\ [][MainNext]_vars

----------------------------------------------------------------------------
(* Claims about the content checks, checked under SpecContents              *)

\* the lines of process_tagmap and of the content checks
ContentKinds ==
    {"tag detected - remove them", "tag detected, remove them (tag already exists)",
     "tag detected - use tags instead", "tag has extra whitespace in it",
     "tag is blank - delete it", "tag value is incorrectly formatted"}

\* the places in out of the lines of those kinds of the current pass
ContentLines == {n \in 1..Len(out) : out[n].run = index /\ out[n].kind \in ContentKinds}

\* the checked_tags of the album under validation
checked_tags == configs[_config].checked_tags

\* a step of a pass: checked_tags only grows, and the lines of process_tagmap
\* and of the content checks that the step prints are about names that were
\* not in checked_tags before it and are in it after it
CheckedOnceStep ==
    pc = "validating" /\ pc' = "validating" =>
      /\ _config' = _config
      /\ checked_tags \subseteq configs'[_config].checked_tags
      /\ \A n \in (Len(out) + 1)..Len(out') :
            out'[n].kind \in ContentKinds =>
              /\ out'[n].tag \notin checked_tags
              /\ out'[n].tag \in configs'[_config].checked_tags

\* within a pass the lines of process_tagmap and of the content checks about
\* one tag name are all printed at one node, at most one of each kind, and
\* the name is in checked_tags
CheckedOnceSoFar ==
    pc = "validating" =>
      /\ \A n \in ContentLines : out[n].tag \in checked_tags
      /\ \A n, m \in ContentLines :
            out[n].tag = out[m].tag =>
              /\ out[n].at = out[m].at
              /\ out[n].kind = out[m].kind => n = m

\* C12: within one album's pass each tag name goes through process_tagmap and
\* the content checks at most once, at the node where it is first found
\* consistent: a name in checked_tags is never processed again, and
\* checked_tags only grows.
C12_TagNameCheckedOnce == [][CheckedOnceStep]_vars /\ []CheckedOnceSoFar

\* every node of an album of two discs has been validated; ALBUMSORT differs
\* between the discs and is the same on the two tracks of disc 1, and the one
\* line about ALBUMSORT of the pass was printed at disc 1
C12_CheckedAtFirstDisc ==
    /\ pc = "validating" /\ Checked = Range(Nodes(Val(album), <<>>))
    /\ Len(Val(album).discs) = 2 /\ Len(Val(album).discs[1].tracks) = 2
    /\ get_valid_tag(Val(album), <<>>, ALBUMSORT) = None
    /\ get_valid_tag(Val(album), <<1>>, ALBUMSORT) # None
    /\ get_valid_tag(Val(album), <<2>>, ALBUMSORT) # None
    /\ ALBUMSORT \in checked_tags
    /\ {out[n].at : n \in {m \in ContentLines : out[m].tag = ALBUMSORT}} = {<<1>>}
    /\ Cardinality({m \in ContentLines : out[m].tag = ALBUMSORT}) = 1

\* the pass goes down to the tracks and pre_validate has run at every node
AllChecked ==
    /\ pc = "validating" /\ argv.checklevel = "track"
    /\ Checked = Range(Nodes(Val(album), <<>>))

\* a line of one of the kinds about the tag is among the lines of the pass,
\* quoting the value where the kind quotes one
Reported(kinds, tag, value) ==
    \E n \in ContentLines :
        /\ out[n].tag = tag /\ out[n].kind \in kinds
        /\ out[n].kind # "tag is blank - delete it" => out[n].args = <<value>>

\* C13 (as claimed): after a pass down to the tracks, for every tag of every
\* track, a value that is empty, is all whitespace or differs from its
\* trimmed form has a whitespace or blank line about it, and a DATE or
\* ORIGDATE value that does not parse has an 'incorrectly formatted' line
\* about it, whatever the other tracks carry under that name.
C13_EveryBadValueReported ==
    AllChecked =>
      LET alb == Val(album)
          ts == Tracks(alb, <<>>)
      IN  \A n \in 1..Len(ts) :
            \A tag \in DOMAIN TrackAt(alb, ts[n]).tags :
              LET value == TrackAt(alb, ts[n]).tags[tag][1]
              IN  /\ (value # Strip(value) \/ Strip(value) = <<>>) =>
                        Reported({"tag has extra whitespace in it", "tag is blank - delete it"}, tag, value)
                  /\ (tag \in DATE_TAGS /\ DateParse(Some(value)) = None) =>
                        Reported({"tag value is incorrectly formatted"}, tag, value)

\* a disc of two tracks, DATE=2001 on the first and DATE=bad on the second,
\* has been validated down to both tracks: DATE was checked at the first
\* track and no line of the pass is about the DATE of the second
C13_BadDateUnreported ==
    /\ AllChecked
    /\ Len(Val(album).discs) = 1 /\ Len(Val(album).discs[1].tracks) = 2
    /\ Entry(Val(album), <<1, 1>>, DATE) = Some(s_2001)
    /\ Entry(Val(album), <<1, 2>>, DATE) = Some(s_bad)
    /\ DateParse(Some(s_2001)) # None /\ DateParse(Some(s_bad)) = None
    /\ DATE \in checked_tags
    /\ \A n \in ContentLines : out[n].tag # DATE

----------------------------------------------------------------------------
(* Validation passes over albums named after several media, whose discs     *)
(* hold cue and log files or lack them                                      *)

\* folder names with the media WEB, CD and CD followed by a space, and one
\* that does not match the pattern of album names
MediaNames ==
    {<<"A", " ", "(", "2", "0", "0", "0", ")", " ", "[", "W", "E", "B", "-", "F", "L", "A", "C", "]">>,
     <<"B", " ", "(", "2", "0", "0", "0", ")", " ", "[", "C", "D", "-", "F", "L", "A", "C", "]">>,
     <<"C", " ", "(", "2", "0", "0", "0", ")", " ", "[", "C", "D", " ", "-", " ", "F", "L", "A", "C", "]">>,
     <<"D">>}

\* the files beside the tracks of a disc: none, one cue sheet, or two cue
\* sheets and a log
CueLogFiles ==
    {<<>>, <<<<"a", ".", "c", "u", "e">>>>,
     <<<<"a", ".", "c", "u", "e">>, <<"b", ".", "c", "u", "e">>, <<"a", ".", "l", "o", "g">>>>}

\* a root directory with one sub-directory CD<d> of one untagged track per
\* list of other files
MkMediaRoot(name, others) ==
    [isdir |-> TRUE, name |-> name,
     dirs |-> [d \in 1..Len(others) |-> MkDir(Some(DiscDirName(d)), <<Flac(<<>>)>>, others[d])]]

\* the command lines "[--no-cue-log] --checklevel <level> <root>"
MediaInit ==
    MainInit({[DefaultArgs(<<MkMediaRoot(name, others)>>) EXCEPT !.checklevel = level, !.no_cue_log = flag] :
                 name \in MediaNames, others \in Lists(CueLogFiles, MaxDiscs) \ {<<>>},
                 level \in Levels, flag \in BOOLEAN},
             {NoExternals}, HashSeeds)

SpecMedia == MediaInit /\ [][MainNext]_vars

----------------------------------------------------------------------------
(* Claims about the cue and log check, checked under SpecMedia              *)

\* the name of the album matches the pattern of album names with a MEDIA
\* other than CD
NamedNotCD(alb) ==
    LET caps == Captured(alb, <<>>)
    IN  caps # None /\ Val(caps)[MEDIA] # None /\ Val(Val(caps)[MEDIA]) # s_CD

\* the places in trace of the steps of the current pass
PassSteps == {n \in 1..Len(trace) : trace[n].run = index}

\* the lines of the current pass about cue and log files
CueLogLines ==
    {n \in 1..Len(out) : out[n].run = index /\ out[n].kind \in {"No file found", "Multiple files found"}}

\* C14: in the pass over an album whose folder name matches the pattern with
\* a MEDIA other than CD, no_cue_log of the album's configuration is set from
\* the album's pre_validate on and stays set, the body of every disc runs
\* after that pre_validate, and no line about a missing or multiple cue or
\* log file is printed.
C14_NoCueLogForOtherMedia ==
    pc = "validating" /\ NamedNotCD(Val(album)) =>
      /\ <<>> \in Checked => configs[_config].no_cue_log
      /\ \A n \in PassSteps :
            Level(trace[n].node) = "disc" /\ trace[n].step = "validate" =>
              \E m \in PassSteps : m < n /\ trace[m].node = <<>> /\ trace[m].step = "pre_validate"
      /\ CueLogLines = {}

\* the bodies of both discs of "A (2000) [WEB-FLAC]" have run without
\* --no-cue-log on the command line: neither disc holds a cue or log file,
\* each was told of its missing cover and none of a missing cue or log
C14_WebDiscsRelaxed ==
    /\ pc = "validating" /\ NamedNotCD(Val(album))
    /\ ~argv.no_cue_log /\ configs[_config].no_cue_log
    /\ Len(Val(album).discs) = 2
    /\ \A d \in 1..2 :
          /\ files_by_ext(Val(album).discs[d].files, <<"c", "u", "e">>) = <<>>
          /\ \E n \in PassSteps : trace[n].node = <<d>> /\ trace[n].step = "validate"
          /\ Printed("No cover art found", <<d>>) = 1
    /\ CueLogLines = {}

\* the disc of an album named after CD has been told of its missing cue
\* sheet
C14_CDDiscChecked ==
    /\ pc = "validating" /\ ~NamedNotCD(Val(album))
    /\ Val(album).name = <<"C", " ", "(", "2", "0", "0", "0", ")", " ", "[", "C", "D", " ", "-", " ", "F", "L", "A", "C", "]">>
    /\ \E n \in CueLogLines : out[n].kind = "No file found" /\ out[n].at = <<1>>

----------------------------------------------------------------------------
(* Validation passes over albums whose required tags are present, missing   *)
(* or in disagreement                                                       *)

MaxStructure == 3

\* the tags of a track: none; every kind of required tag; another ALBUM and
\* ARTIST without ALBUMARTIST and ORIGDATE; an ORIGDATE without ALBUMARTIST
StructureTags ==
    {<<>>,
     (ALBUM :> <<s_Album>>) @@ (ALBUMARTIST :> <<s_Artist>>) @@ (ORIGDATE :> <<s_2001>>)
        @@ (DISCNUMBER :> << <<"1">> >>) @@ (ARTIST :> <<s_a>>) @@ (TITLE :> <<s_T>>),
     (ALBUM :> <<s_Albun>>) @@ (DISCNUMBER :> << <<"1">> >>) @@ (ARTIST :> <<s_b>>),
     (ALBUM :> <<s_Album>>) @@ (ORIGDATE :> <<s_2001>>) @@ (TITLE :> <<s_T>>)}

StructureRoots ==
    {MkRoot(s_Album, g) : g \in Groupings({Flac(tags) : tags \in StructureTags}, MaxDiscs, MaxStructure) \ {<<>>}}

StructureInit == MainInit({DefaultArgs(<<root>>) : root \in StructureRoots}, {NoExternals}, HashSeeds)

SpecStructure == StructureInit /\ [][MainNext]_vars

----------------------------------------------------------------------------
(* Claims about the structural check, checked under SpecStructure           *)

\* no track below the node carries the tag
AbsentFromAll(alb, node, tag) ==
    LET ts == Tracks(alb, node)
    IN  \A n \in 1..Len(ts) : Entry(alb, ts[n], tag) = None

\* the number of 'Problem with tag' lines the structural check owes a node
\* for a required tag
ProblemsOwed(alb, node, tag) ==
    IF tag \in {ALBUMARTIST, ORIGDATE} /\ AbsentFromAll(alb, node, tag) THEN 0
    ELSE IF ~CarriedByAll(alb, node, tag) \/ Cardinality(ValuesOn(alb, node, tag)) > 1 THEN 1
    ELSE 0

\* C15: at every validated node and for each of its required tags, exactly
\* one 'Problem with tag' line about the tag is printed at the node iff some
\* or all items below it lack the tag or their values differ, except that an
\* ALBUMARTIST and an ORIGDATE absent from every item get none; a tag that
\* every item carries with one shared value gets none.
C15_OneProblemPerRequiredTag ==
    pc = "validating" =>
      \A node \in Checked :
        \A tag \in REQUIRED_TAGS(Level(node)) :
          PrintedFor("Problem with tag", tag, node) = ProblemsOwed(Val(album), node, tag)

\* an album of two tracks has been checked: no track has an ALBUMARTIST, which
\* got no line; one has an ORIGDATE and the other has none, the two ALBUM tags
\* differ, and each got one line
C15_AlbumArtistExcused ==
    /\ pc = "validating" /\ <<>> \in Checked
    /\ Len(Tracks(Val(album), <<>>)) = 2
    /\ AbsentFromAll(Val(album), <<>>, ALBUMARTIST)
    /\ ~AbsentFromAll(Val(album), <<>>, ORIGDATE) /\ ~CarriedByAll(Val(album), <<>>, ORIGDATE)
    /\ Cardinality(ValuesOn(Val(album), <<>>, ALBUM)) = 2
    /\ PrintedFor("Problem with tag", ALBUMARTIST, <<>>) = 0
    /\ PrintedFor("Problem with tag", ORIGDATE, <<>>) = 1
    /\ PrintedFor("Problem with tag", ALBUM, <<>>) = 1

\* an album whose every track carries the same value of every album tag it
\* has got no line about ALBUM, ALBUMARTIST and ORIGDATE
C15_SharedValuesPass ==
    /\ pc = "validating" /\ <<>> \in Checked
    /\ Len(Tracks(Val(album), <<>>)) = 3
    /\ \A tag \in {ALBUM, ALBUMARTIST, ORIGDATE} :
          /\ CarriedByAll(Val(album), <<>>, tag)
          /\ PrintedFor("Problem with tag", tag, <<>>) = 0

====
